---- MODULE Spec2Model ----
(***************************************************************************)
(* Model of the modelforge core: batched pair enumeration, displacement    *)
(* and distance computation, message-passing interaction blocks and the    *)
(* atom-to-molecule reduction, followed by the energy scaling, the         *)
(* self-energy regression, the angular symmetry function, the dataset      *)
(* splitting and file cache, the file locks and the running statistics.    *)
(*                                                                         *)
(* Tensors are modelled by their shape and their entries.  Atom indices    *)
(* are 0-based as in the source; TLA+ sequences are 1-based, so atom i is  *)
(* entry i+1 of a per-atom sequence.  Positions are integer 3-vectors      *)
(* taken from the corners of a right triangle with sides 3, 4 and 5,       *)
(* so that every Euclidean norm is computed exactly.                       *)
(***************************************************************************)
EXTENDS Integers, Sequences, FiniteSets, TLC

VARIABLES
    inputs,     \* the batch: atomic_numbers, positions, atomic_subsystem_indices
    config,     \* the constructed module: pairlist class, only_unique_pairs, cutoff, architecture
    pc,         \* position of the forward call
    pairlist,   \* the output of Pairlist.forward / Neighborlist.forward
    rep,        \* the per-atom representation and the per-pair features of the potential
    nlayer,     \* the number of interaction modules applied so far
    step,       \* what the last interaction module read, aggregated and returned
    energy,     \* the per-molecule energies returned by the readout
    model,      \* what the potential object keeps between forward calls
    given,      \* the batch as the caller handed it to the last constructor or call
    returned,   \* what the last forward call returned to the caller
    ncalls      \* the number of forward calls made on the potential so far

vars == <<inputs, config, pc, pairlist, rep, nlayer, step, energy, model, given,
          returned, ncalls>>

(* ------------------------------ bounds --------------------------------- *)
MaxAtoms == 3
MaxMol == 2
MaxCutoff == 5

\* corners of a 3-4-5 triangle: all pairwise distances are 0, 3, 4 or 5
Points == {<<0, 0, 0>>, <<3, 0, 0>>, <<0, 4, 0>>}
\* cutoffs at, between and above the distances that occur
Cutoffs == 3..MaxCutoff
MolIds == 0..MaxMol

(* ------------------------- tensor primitives --------------------------- *)
\* torch.arange(a, b)
arange(a, b) == [k \in 1..(IF b > a THEN b - a ELSE 0) |-> a + k - 1]

\* torch.cat over a list of 1-D tensors
RECURSIVE cat(_)
cat(ts) == IF ts = <<>> THEN <<>> ELSE Head(ts) \o cat(Tail(ts))

\* torch.repeat_interleave(t, repeats) for a scalar repeat count
repeat_interleave(t, repeats) ==
    [k \in 1..(IF repeats > 0 THEN Len(t) * repeats ELSE 0) |-> t[((k - 1) \div repeats) + 1]]

\* the upper triangle of an n x n grid from diagonal `offset` on, in row-major
\* order, as the two rows (row indices, column indices)
triu(n, offset) ==
    LET row(i) == [k \in 1..(n - offset - i) |-> <<i, i + offset + k - 1>>]
        cols == cat([r \in 1..n |-> row(r - 1)])
    IN  <<[k \in 1..Len(cols) |-> cols[k][1]], [k \in 1..Len(cols) |-> cols[k][2]]>>

\* the triangle with the main diagonal included
triu_indices_with_diagonal(n) == triu(n, 0)

\* torch.triu_indices(n, n, 1): the strict upper triangle
triu_indices(n) == triu(n, 1)

\* t[mask] for a boolean mask of the same length
RECURSIVE masked_select(_, _)
masked_select(t, mask) ==
    IF t = <<>> THEN <<>>
    ELSE (IF Head(mask) THEN <<Head(t)>> ELSE <<>>) \o masked_select(Tail(t), Tail(mask))

\* (mask).nonzero(): the 0-based positions that hold TRUE, in order
nonzero(mask) == masked_select(arange(0, Len(mask)), mask)

VecSub(a, b) == <<a[1] - b[1], a[2] - b[2], a[3] - b[3]>>
SumSq(v) == v[1] * v[1] + v[2] * v[2] + v[3] * v[3]
\* v.norm(p=2): exact on the integer-distance point set
norm(v) == CHOOSE n \in 0..SumSq(v) : n * n = SumSq(v)

(* --------------------------- pair enumerator --------------------------- *)
\* A [2, P] index tensor is [ok, shape, i, j] with rows i and j; an indexing
\* with a 0-dim tensor leaves shape <<2>> and rows of one entry each.
Failed == [ok |-> FALSE]

\* the mask with the same-molecule comparison left out
no_mask(atomic_subsystem_indices, i_indices, j_indices) ==
    [k \in 1..Len(i_indices) |-> TRUE]

same_molecule_mask(atomic_subsystem_indices, i_indices, j_indices) ==
    [k \in 1..Len(i_indices) |->
        atomic_subsystem_indices[i_indices[k] + 1] = atomic_subsystem_indices[j_indices[k] + 1]]

pair_list(atomic_subsystem_indices, only_unique_pairs) ==
    LET n == Len(atomic_subsystem_indices)
        \* torch.cat raises on the empty list the comprehension yields for n = 0
        raises == ~only_unique_pairs /\ n = 0
        i_indices == IF only_unique_pairs THEN triu_indices(n)[1]
                     ELSE repeat_interleave(arange(0, n), n - 1)
        j_indices == IF only_unique_pairs THEN triu_indices(n)[2]
                     ELSE cat([r \in 1..n |-> arange(0, r - 1) \o arange(r, n)])
        mask == same_molecule_mask(atomic_subsystem_indices, i_indices, j_indices)
        i_final_pairs == masked_select(i_indices, mask)
        j_final_pairs == masked_select(j_indices, mask)
    IN  IF raises THEN Failed
        ELSE [ok |-> TRUE, shape |-> <<2, Len(i_final_pairs)>>,
              i |-> i_final_pairs, j |-> j_final_pairs]

\* the comparison with the boundary excluded
below_cutoff(d, cutoff) == d < cutoff

\* distances <= cutoff
within_cutoff(d, cutoff) == d <= cutoff

neighbor_list_with_cutoff(coordinates, atomic_subsystem_indices, cutoff, only_unique_pairs) ==
    LET pair_indices == pair_list(atomic_subsystem_indices, only_unique_pairs)
        P == Len(pair_indices.i)
        \* pair_coordinates[:, 0, :] - pair_coordinates[:, 1, :]
        distances == [k \in 1..P |->
            norm(VecSub(coordinates[pair_indices.i[k] + 1], coordinates[pair_indices.j[k] + 1]))]
        nz == nonzero([k \in 1..P |-> within_cutoff(distances[k], cutoff)])
        \* .squeeze(): [K, 1] becomes [K], and a 0-dim tensor when K = 1
        zero_dim == Len(nz) = 1
    IN  IF ~pair_indices.ok THEN Failed
        ELSE [ok |-> TRUE,
              shape |-> IF zero_dim THEN <<2>> ELSE <<2, Len(nz)>>,
              i |-> [k \in 1..Len(nz) |-> pair_indices.i[nz[k] + 1]],
              j |-> [k \in 1..Len(nz) |-> pair_indices.j[nz[k] + 1]]]

(* ---------------------- displacement and distance ---------------------- *)
\* the subtraction with its operands swapped
displacement_reversed(selected_positions, k) == VecSub(selected_positions[1][k], selected_positions[2][k])

\* the subtraction along the first axis only
displacement_along_x(selected_positions, k) ==
    <<selected_positions[2][k][1] - selected_positions[1][k][1], 0, 0>>

\* selected_positions[1] - selected_positions[0]
displacement(selected_positions, k) == VecSub(selected_positions[2][k], selected_positions[1][k])

calculate_r_ij(pair_indices, positions) ==
    LET flat == pair_indices.i \o pair_indices.j               \* pair_indices.view(-1)
        selected == [k \in 1..Len(flat) |-> positions[flat[k] + 1]]
        P == Len(flat) \div 2                                  \* .view(2, -1, 3)
        selected_positions == <<SubSeq(selected, 1, P), SubSeq(selected, P + 1, 2 * P)>>
    IN  [k \in 1..P |-> displacement(selected_positions, k)]

calculate_d_ij(r_ij) == [k \in 1..Len(r_ij) |-> norm(r_ij[k])]

PairlistOutput(pair_indices, positions) ==
    IF ~pair_indices.ok THEN Failed
    ELSE LET r_ij == calculate_r_ij(pair_indices, positions)
         IN  [ok |-> TRUE, pair_indices |-> pair_indices,
              d_ij |-> calculate_d_ij(r_ij), r_ij |-> r_ij]

Pairlist_forward(positions, atomic_subsystem_indices, only_unique_pairs) ==
    PairlistOutput(pair_list(atomic_subsystem_indices, only_unique_pairs), positions)

Neighborlist_forward(positions, atomic_subsystem_indices, cutoff, only_unique_pairs) ==
    PairlistOutput(
        neighbor_list_with_cutoff(positions, atomic_subsystem_indices, cutoff, only_unique_pairs),
        positions)

(* ------------------------------ the batch ------------------------------ *)
NumAtoms == Len(inputs.atomic_subsystem_indices)
Atoms == 0..(NumAtoms - 1)
asi(a) == inputs.atomic_subsystem_indices[a + 1]
pos(a) == inputs.positions[a + 1]

Batches(ids, points, zs) ==
    UNION {[atomic_numbers : [1..n -> zs], positions : [1..n -> points],
            atomic_subsystem_indices : [1..n -> ids]] : n \in 0..MaxAtoms}

(* ------------------------ pair enumerator module ----------------------- *)
InitPairs ==
    /\ inputs \in Batches(MolIds, Points, {1})
    /\ config \in [class : {"Pairlist"}, only_unique_pairs : BOOLEAN, cutoff : {0},
                   arch : {"none"}]
              \cup [class : {"Neighborlist"}, only_unique_pairs : BOOLEAN, cutoff : Cutoffs,
                    arch : {"none"}]
    /\ pc = "input"
    /\ pairlist = Failed
    /\ rep = Failed
    /\ nlayer = 0
    /\ step = Failed
    /\ energy = Failed
    /\ model = Failed
    /\ given = Failed
    /\ returned = Failed
    /\ ncalls = 0

CallPairlist ==
    /\ pc = "input"
    /\ config.class = "Pairlist"
    /\ pairlist' = Pairlist_forward(inputs.positions, inputs.atomic_subsystem_indices,
                                    config.only_unique_pairs)
    /\ pc' = IF pairlist'.ok THEN "pairs" ELSE "error"
    /\ UNCHANGED <<inputs, config, rep, nlayer, step, energy, model, given, returned, ncalls>>

CallNeighborlist ==
    /\ pc = "input"
    /\ config.class = "Neighborlist"
    /\ pairlist' = Neighborlist_forward(inputs.positions, inputs.atomic_subsystem_indices,
                                        config.cutoff, config.only_unique_pairs)
    /\ pc' = IF pairlist'.ok THEN "pairs" ELSE "error"
    /\ UNCHANGED <<inputs, config, rep, nlayer, step, energy, model, given, returned, ncalls>>

NextPairs == CallPairlist \/ CallNeighborlist

Spec == InitPairs /\ [][NextPairs]_vars

(* ------------------ properties of the pair enumerator ------------------ *)
NumPairs == Len(pairlist.pair_indices.i)
PairAt(k) == <<pairlist.pair_indices.i[k], pairlist.pair_indices.j[k]>>
PairSet == {PairAt(k) : k \in 1..NumPairs}
SameMolecule(a, b) == asi(a) = asi(b)
\* the candidates of the configured mode: i < j for unique pairs, i # j otherwise
Candidate(a, b) == IF config.only_unique_pairs THEN a < b ELSE a # b
Prescribed == {p \in Atoms \X Atoms : Candidate(p[1], p[2]) /\ SameMolecule(p[1], p[2])}
DistSq(a, b) == SumSq(VecSub(pos(b), pos(a)))
MoleculeSize(m) == Cardinality({a \in Atoms : asi(a) = m})
\* n(n-1)/2 pairs per molecule of n atoms in unique mode, n(n-1) otherwise
PairsOfMolecule(m) == IF config.only_unique_pairs
                      THEN (MoleculeSize(m) * (MoleculeSize(m) - 1)) \div 2
                      ELSE MoleculeSize(m) * (MoleculeSize(m) - 1)
RECURSIVE PairsOfMolecules(_)
PairsOfMolecules(ms) == IF ms = {} THEN 0
                        ELSE LET m == CHOOSE x \in ms : TRUE
                             IN  PairsOfMolecule(m) + PairsOfMolecules(ms \ {m})

\* C1: every column (i, j) of a returned pair list, in either mode and with
\* or without a cutoff, joins two atoms of the same molecule.
C1_NoCrossMoleculePair ==
    pc = "pairs" => \A k \in 1..NumPairs : SameMolecule(PairAt(k)[1], PairAt(k)[2])

\* C1 witness: a pair list was returned for a batch that holds atoms of
\* different molecules, so cross-molecule candidates were discarded.
C1_Witness ==
    /\ pc = "pairs"
    /\ NumPairs >= 1
    /\ \E a, b \in Atoms : ~SameMolecule(a, b)

\* C3: a cutoff-filtered pair list holds exactly the same-molecule candidate
\* pairs with d_ij <= cutoff: every retained pair is within the cutoff and
\* every same-molecule candidate that is missing lies beyond it.
C3_CutoffFilterExact ==
    (pc = "pairs" /\ config.class = "Neighborlist") =>
        /\ PairSet \subseteq Prescribed
        /\ \A p \in Prescribed :
              (p \in PairSet) <=> (DistSq(p[1], p[2]) <= config.cutoff * config.cutoff)

\* C3 witness: one same-molecule pair exactly at the cutoff was retained and
\* another beyond the cutoff was dropped.
C3_Witness ==
    /\ pc = "pairs"
    /\ config.class = "Neighborlist"
    /\ \E p \in PairSet : DistSq(p[1], p[2]) = config.cutoff * config.cutoff
    /\ \E p \in Prescribed : p \notin PairSet

\* C4: without a cutoff the pair list holds each prescribed pair exactly
\* once and nothing else (i < j per unordered same-molecule pair in unique
\* mode; both orders and never (i, i) otherwise), so a molecule of n atoms
\* contributes n(n-1)/2 pairs in unique mode and n(n-1) in all-pairs mode.
C4_PairListExact ==
    (pc = "pairs" /\ config.class = "Pairlist") =>
        /\ PairSet = Prescribed
        /\ Cardinality(PairSet) = NumPairs
        /\ pairlist.pair_indices.shape = <<2, NumPairs>>
        /\ NumPairs = PairsOfMolecules({asi(a) : a \in Atoms})
        /\ config.only_unique_pairs => \A p \in PairSet : p[1] < p[2]
        /\ ~config.only_unique_pairs =>
              \A p \in PairSet : p[1] # p[2] /\ <<p[2], p[1]>> \in PairSet

\* C4 witness: an unfiltered pair list of a batch with a molecule of three atoms.
C4_Witness ==
    /\ pc = "pairs"
    /\ config.class = "Pairlist"
    /\ \E a \in Atoms : MoleculeSize(asi(a)) = 3

\* C5: a molecule with 0 or 1 atoms contributes no pair and no error is
\* raised, in both modes and with or without a cutoff; a batch of a single
\* one-atom molecule, or of no atoms at all, yields an empty pair list.
C5_SmallMoleculesYieldNoPairsNoError ==
    /\ pc # "error"
    /\ pc = "pairs" =>
          /\ \A k \in 1..NumPairs : MoleculeSize(asi(PairAt(k)[1])) >= 2
          /\ NumAtoms <= 1 => pairlist.pair_indices.shape = <<2, 0>>

\* C6: when the cutoff is at least every same-molecule distance, the
\* neighbor list returns the pair_indices of the unfiltered pair list: same
\* shape [2, P] (also for P = 0 and P = 1), same columns, same order.
C6_LargeCutoffEqualsPairList ==
    ( /\ pc = "pairs"
      /\ config.class = "Neighborlist"
      /\ \A p \in Prescribed : DistSq(p[1], p[2]) <= config.cutoff * config.cutoff )
    => pairlist.pair_indices =
           pair_list(inputs.atomic_subsystem_indices, config.only_unique_pairs)

\* C7: for every pair column (i, j), r_ij = positions[j] - positions[i] and
\* d_ij is its Euclidean norm; in all-pairs mode the column (j, i) is present
\* with the negated displacement and the same distance.
C7_DisplacementAndDistance ==
    pc = "pairs" =>
        /\ Len(pairlist.r_ij) = NumPairs /\ Len(pairlist.d_ij) = NumPairs
        /\ \A k \in 1..NumPairs :
              /\ pairlist.r_ij[k] = VecSub(pos(PairAt(k)[2]), pos(PairAt(k)[1]))
              /\ pairlist.d_ij[k] >= 0
              /\ pairlist.d_ij[k] * pairlist.d_ij[k] = SumSq(pairlist.r_ij[k])
        /\ ~config.only_unique_pairs =>
              \A k \in 1..NumPairs : \E l \in 1..NumPairs :
                  /\ PairAt(l) = <<PairAt(k)[2], PairAt(k)[1]>>
                  /\ pairlist.r_ij[l] = VecSub(<<0, 0, 0>>, pairlist.r_ij[k])
                  /\ pairlist.d_ij[l] = pairlist.d_ij[k]

\* C7 witness: an all-pairs list with a pair of atoms at different positions.
C7_Witness ==
    /\ pc = "pairs"
    /\ ~config.only_unique_pairs
    /\ \E k \in 1..NumPairs : pairlist.r_ij[k] # <<0, 0, 0>>

(* --------------------------- float tensors ----------------------------- *)
\* A float is <<n>>, standing for n / Scale, or NaN.  Products and quotients
\* round toward zero, so that, as in IEEE arithmetic, negating an operand
\* negates the result.
Scale == 64
NaN == <<>>
Fl(n) == <<n>>
Real(c) == <<c * Scale>>
IsNaN(x) == x = NaN
Quot(a, b) == IF a >= 0 THEN a \div b ELSE 0 - ((0 - a) \div b)
FAdd(x, y) == IF IsNaN(x) \/ IsNaN(y) THEN NaN ELSE <<x[1] + y[1]>>
FMul(x, y) == IF IsNaN(x) \/ IsNaN(y) THEN NaN ELSE <<Quot(x[1] * y[1], Scale)>>
\* the only division by zero that occurs is 0 / 0 (r_ij / d_ij of coincident atoms)
FDiv(x, y) == IF IsNaN(x) \/ IsNaN(y) \/ y = <<0>> THEN NaN
              ELSE <<Quot(x[1] * Scale, y[1])>>
VZero == <<Fl(0), Fl(0), Fl(0)>>
\* a tensor held by its entries
Tensor(t) == t \o <<>>
VAdd(u, v) == Tensor([c \in 1..3 |-> FAdd(u[c], v[c])])
VScale(x, v) == Tensor([c \in 1..3 |-> FMul(x, v[c])])
VDot(u, v) == FAdd(FAdd(FMul(u[1], v[1]), FMul(u[2], v[2])), FMul(u[3], v[3]))
Abs(n) == IF n >= 0 THEN n ELSE 0 - n
\* torch.sqrt(torch.sum(v**2) + epsilon) and torch.norm(v, p=2); epsilon lies
\* below the resolution of the model
VNorm(v) ==
    IF \E c \in 1..3 : IsNaN(v[c]) THEN NaN
    ELSE LET s == v[1][1] * v[1][1] + v[2][1] * v[2][1] + v[3][1] * v[3][1]
         IN  <<CHOOSE r \in 0..(Abs(v[1][1]) + Abs(v[2][1]) + Abs(v[3][1])) :
                   r * r <= s /\ s < (r + 1) * (r + 1)>>

\* a scatter that overwrites: the last entry of source whose index is a
RECURSIVE LastAt(_, _, _)
LastAt(source, index, a) ==
    IF source = <<>> THEN Fl(0)
    ELSE IF index[Len(index)] = a THEN source[Len(source)]
    ELSE LastAt(SubSeq(source, 1, Len(source) - 1), SubSeq(index, 1, Len(index) - 1), a)

\* sum of the entries of source whose index is a
RECURSIVE SumAt(_, _, _)
SumAt(source, index, a) ==
    IF source = <<>> THEN Fl(0)
    ELSE FAdd(IF Head(index) = a THEN Head(source) ELSE Fl(0),
              SumAt(Tail(source), Tail(index), a))

\* a buffer kept from the last call: the tensor that call returned
reused_buffer(n) ==
    IF returned.ok /\ Len(returned.raw_E) = n THEN returned.raw_E
    ELSE Tensor([a \in 1..n |-> Fl(0)])
\* torch.zeros(n), torch.zeros_like(x): a new tensor of n zero rows
torch_zeros(n) == Tensor([a \in 1..n |-> Fl(0)])

\* torch.zeros(n).index_add_(0, index, source), also scatter_add_ on a fresh
\* zero tensor of n rows
index_add(n, index, source) ==
    Tensor([a \in 1..n |-> FAdd(torch_zeros(n)[a], SumAt(source, index, a - 1))])
index_add_vec(n, index, source) ==
    Tensor([a \in 1..n |-> [c \in 1..3 |->
        FAdd(torch_zeros(n)[a], SumAt([k \in 1..Len(source) |-> source[k][c]], index, a - 1))]])

\* torch_scatter.scatter_add(src, index, dim=0) with neither out nor dim_size:
\* the output has index.max() + 1 rows, and no row for an empty index
scatter_size(index) ==
    IF index = <<>> THEN 0
    ELSE 1 + CHOOSE m \in {index[k] : k \in 1..Len(index)} :
                 \A k \in 1..Len(index) : index[k] <= m
scatter_add(src, index) == index_add(scatter_size(index), index, src)
scatter_add_vec(src, index) == index_add_vec(scatter_size(index), index, src)

\* x + y for tensors whose leading dimensions may differ: equal sizes add
\* row by row, a size of 1 is expanded to the other size (also to 0), any
\* other combination raises
broadcast_add(x, y, is_vector) ==
    LET Add(u, v) == IF is_vector THEN VAdd(u, v) ELSE FAdd(u, v)
    IN  IF Len(x) = Len(y)
          THEN [ok |-> TRUE, value |-> Tensor([k \in 1..Len(x) |-> Add(x[k], y[k])])]
        ELSE IF Len(y) = 1
          THEN [ok |-> TRUE, value |-> Tensor([k \in 1..Len(x) |-> Add(x[k], y[1])])]
        ELSE IF Len(x) = 1
          THEN [ok |-> TRUE, value |-> Tensor([k \in 1..Len(y) |-> Add(x[1], y[k])])]
        ELSE Failed

(* ------------------------- shared building blocks ---------------------- *)
\* nn.Embedding: one row of the table per atomic number
Embedding(z) == Fl(Scale \div 2 + 4 * z)
\* Dense: a linear map whose bias is zero after construction
Dense(w, x) == FMul(w, x)
\* the activation (ReLU in the readout, SiLU / shifted softplus elsewhere):
\* zero at zero, the identity on positive values
Act(x) == IF IsNaN(x) THEN NaN ELSE IF x[1] > 0 THEN x ELSE Fl(0)
\* one radial basis function: positive and decreasing in the distance
radial_symmetry_function(d) == Fl((4 * Scale) \div (1 + d))
One == Real(1)
Half == Fl(Scale \div 2)
\* torch.cos(pi * num / den) for num >= 0, den > 0: the angle is reduced to
\* the first quadrant by the period and the symmetries of the cosine, where
\* cos(pi * t) = (1 - 4 t^2) / (1 + t^2) to within 0.002 and exactly at
\* t = 0, 1/3 and 1/2
cos_reduced(t, den) ==
    LET u == IF t > den THEN 2 * den - t ELSE t
        w == IF 2 * u > den THEN den - u ELSE u
        c == (Scale * (den * den - 4 * w * w)) \div (den * den + w * w)
    IN  Fl(IF 2 * u > den THEN 0 - c ELSE c)
cos_pi(num, den) == CHOOSE c \in {cos_reduced(t, den) : t \in {num % (2 * den)}} : TRUE
\* a mask that removes nothing
every_distance(d, cutoff) == TRUE
\* (d_ij < self.cutoff)
inside_cutoff(d, cutoff) == d < cutoff
\* CosineCutoff.forward for one distance:
\* input_cut = 0.5 * (cos(d_ij * pi / cutoff) + 1.0), then
\* input_cut *= (d_ij < cutoff).float()
CosineCutoff(d, cutoff) ==
    LET input_cut == FMul(Half, FAdd(cos_pi(d, cutoff), One))
    IN  FMul(input_cut, IF inside_cutoff(d, cutoff) THEN One ELSE Fl(0))

FSub(x, y) == FAdd(x, FMul(Real(0 - 1), y))
\* the rows a module reads and returns, one flat row of floats per atom
Rows(x, mu) == Tensor([a \in 1..Len(x) |-> <<x[a]>> \o mu[a]])
ScalarRows(x) == Tensor([a \in 1..Len(x) |-> <<x[a]>>])

\* number_of_interaction_modules
NumLayers == 2

(* -------------------------------- PaiNN -------------------------------- *)
\* row (l, c) of filter_net: block l, channel c of (dq, dmuR, dmumu)
filter_net(l, c, f) == Dense(Real(1 + ((l + c) % 2)), f)

PaiNNRepresentation_forward(pl, atomic_embedding, cutoff) ==
    LET P == Len(pl.d_ij)
        dir_ij == Tensor([k \in 1..P |->
            [c \in 1..3 |-> FDiv(Real(pl.r_ij[k][c]), Real(pl.d_ij[k]))]])
        f_ij == Tensor([k \in 1..P |-> radial_symmetry_function(pl.d_ij[k])])
        fcut == Tensor([k \in 1..P |-> CosineCutoff(pl.d_ij[k], cutoff)])
        filter_list == Tensor([l \in 1..NumLayers |-> [k \in 1..P |->
            [c \in 1..3 |-> FMul(filter_net(l, c, f_ij[k]), fcut[k])]]])
    IN  [x |-> atomic_embedding,
         mu |-> [a \in 1..Len(atomic_embedding) |-> VZero],
         filters |-> filter_list, dir_ij |-> dir_ij, f_ij |-> f_ij, rcut_ij |-> fcut]

\* Dense with activation, then Dense into the three channels
interatomic_net(q) == Tensor([c \in 1..3 |-> Dense(One, Act(Dense(One, q)))])

PaiNNInteraction_forward(q, mu, W_ij, dir_ij, pair_indices) ==
    LET idx_i == pair_indices.i
        idx_j == pair_indices.j
        P == Len(idx_i)
        x == Tensor([a \in 1..Len(q) |-> interatomic_net(q[a])])
        xj == Tensor([k \in 1..P |-> x[idx_j[k] + 1]])
        muj == Tensor([k \in 1..P |-> mu[idx_j[k] + 1]])
        xW == Tensor([k \in 1..P |-> [c \in 1..3 |-> FMul(W_ij[k][c], xj[k][c])]])
        dq == scatter_add([k \in 1..P |-> xW[k][1]], idx_i)
        dmu == scatter_add_vec(
                   [k \in 1..P |-> VAdd(VScale(xW[k][2], dir_ij[k]), VScale(xW[k][3], muj[k]))],
                   idx_i)
        q_new == broadcast_add(q, dq, FALSE)
        mu_new == broadcast_add(mu, dmu, TRUE)
    IN  IF ~q_new.ok \/ ~mu_new.ok THEN Failed
        ELSE [ok |-> TRUE, x |-> q_new.value, mu |-> mu_new.value,
              old |-> Rows(q, mu), update |-> Rows(dq, dmu),
              returned |-> Rows(q_new.value, mu_new.value),
              sender |-> [a \in 1..Len(x) |-> x[a][1]],
              weight |-> [k \in 1..P |-> W_ij[k][1]],
              aggregate |-> dq]

\* Dense on cat([q, mu_Vn]) with activation, then Dense into three channels
intra_atomic_net(q, mu_Vn) ==
    Tensor([c \in 1..3 |-> Dense(Half, Act(FAdd(Dense(Half, q), Dense(Half, mu_Vn))))])

PaiNNMixing_forward(q, mu) ==
    LET n == Len(q)
        mu_V == Tensor([a \in 1..n |-> VScale(Half, mu[a])])        \* mu_channel_mix, first half
        mu_W == Tensor([a \in 1..n |-> VScale(One, mu[a])])         \* mu_channel_mix, second half
        mu_Vn == Tensor([a \in 1..n |-> VNorm(mu_V[a])])
        x == Tensor([a \in 1..n |-> intra_atomic_net(q[a], mu_Vn[a])])
        dmu_intra == Tensor([a \in 1..n |-> VScale(x[a][2], mu_W[a])])
        dqmu_intra == Tensor([a \in 1..n |-> FMul(x[a][3], VDot(mu_V[a], mu_W[a]))])
    IN  [x |-> [a \in 1..n |-> FAdd(FAdd(q[a], x[a][1]), dqmu_intra[a])],
         mu |-> [a \in 1..n |-> VAdd(mu[a], dmu_intra[a])]]

(* -------------------------------- SchNet ------------------------------- *)
\* a linear layer, the activation and a second linear layer
sequential_block(x) == Dense(One, Act(Dense(Half, x)))
\* nn.Linear, whose bias is not zero after construction
intput_to_feature(x) == FAdd(Dense(One, x), Fl(2))

SchNetInteractionBlock_forward(x, f_ij, idx_i, idx_j, rcut_ij) ==
    LET P == Len(idx_i)
        x1 == Tensor([a \in 1..Len(x) |-> intput_to_feature(x[a])])
        Wij == Tensor([k \in 1..P |-> FMul(sequential_block(f_ij[k]), rcut_ij[k])])
        x_j == Tensor([k \in 1..P |-> x1[idx_j[k] + 1]])
        x_ij == Tensor([k \in 1..P |-> FMul(x_j[k], Wij[k])])
        x_native == index_add(Len(x1), idx_i, x_ij)
    IN  [v |-> [a \in 1..Len(x1) |-> sequential_block(x_native[a])],
         sender |-> x1, weight |-> Wij, aggregate |-> x_native]

\* one pass of the loop of Schnet.forward: v = interaction(x, ...); x = x + v
Schnet_forward_layer(x, f_ij, idx_i, idx_j, rcut_ij) ==
    LET out == SchNetInteractionBlock_forward(x, f_ij, idx_i, idx_j, rcut_ij)
        x_new == Tensor([a \in 1..Len(x) |-> FAdd(x[a], out.v[a])])
    IN  [ok |-> TRUE, x |-> x_new, mu |-> <<>>,
         old |-> ScalarRows(x), update |-> ScalarRows(out.v), returned |-> ScalarRows(x_new),
         sender |-> out.sender, weight |-> out.weight, aggregate |-> out.aggregate]

(* ------------------------------ TensorNet ------------------------------ *)
\* The tensors of one atom are taken as 1 x 1 matrices: the identity part is
\* the entry itself, the antisymmetric and the traceless symmetric parts
\* vanish unless the entry is NaN.
tensor_norm(tensor) == FMul(tensor, tensor)
decompose_tensor(tensor) ==
    <<tensor,
      FMul(Half, FSub(tensor, tensor)),
      FSub(FMul(Half, FAdd(tensor, tensor)), tensor)>>
vector_to_skewtensor(r_ij_norm) == FMul(Fl(0), FAdd(FAdd(r_ij_norm[1], r_ij_norm[2]), r_ij_norm[3]))
vector_to_symtensor(r_ij_norm) == FMul(Fl(0), VDot(r_ij_norm, r_ij_norm))
\* 1 + 0.1 * atomic_charges, for the neutral molecules of the batch
total_charge == 0
ChargeFactor == FAdd(One, FMul(Fl(Scale \div 10), Real(total_charge)))

tensor_message_passing(pair_indices, radial_feature_vector, tensor, number_of_atoms) ==
    LET msg == Tensor([k \in 1..Len(pair_indices.j) |->
                   FMul(radial_feature_vector[k], tensor[pair_indices.j[k] + 1])])
    IN  index_add(number_of_atoms, pair_indices.i, msg)

TensorNetRepresentation_forward(atomic_numbers, pl, cutoff) ==
    LET idx_i == pl.pair_indices.i
        idx_j == pl.pair_indices.j
        P == Len(idx_i)
        n == Len(atomic_numbers)
        \* _get_atomic_number_message: a linear map of the two embeddings
        Zij == Tensor([k \in 1..P |-> FAdd(Dense(One, Embedding(atomic_numbers[idx_i[k] + 1])),
                                           Dense(Half, Embedding(atomic_numbers[idx_j[k] + 1])))])
        r_ij_norm == Tensor([k \in 1..P |->
            [c \in 1..3 |-> FDiv(Real(pl.r_ij[k][c]), Real(pl.d_ij[k]))]])
        rcut_ij == Tensor([k \in 1..P |-> CosineCutoff(pl.d_ij[k], cutoff)])
        radial_feature_vector == Tensor([k \in 1..P |->
            FMul(radial_symmetry_function(pl.d_ij[k]), rcut_ij[k])])
        \* _get_tensor_messages
        C == Tensor([k \in 1..P |-> FMul(rcut_ij[k], Zij[k])])
        Iij == Tensor([k \in 1..P |-> FMul(Dense(Real(2), radial_feature_vector[k]), C[k])])
        Aij == Tensor([k \in 1..P |-> FMul(FMul(Dense(One, radial_feature_vector[k]), C[k]),
                                    vector_to_skewtensor(r_ij_norm[k]))])
        Sij == Tensor([k \in 1..P |-> FMul(FMul(Dense(One, radial_feature_vector[k]), C[k]),
                                    vector_to_symtensor(r_ij_norm[k]))])
        I == index_add(n, idx_i, Iij)
        A == index_add(n, idx_i, Aij)
        S == index_add(n, idx_i, Sij)
        \* the layer-normalised norm passed through linears_scalar: LayerNorm of
        \* a single feature returns its bias, whatever finite value comes in
        nomalized == Tensor([a \in 1..n |->
            IF IsNaN(tensor_norm(FAdd(FAdd(I[a], A[a]), S[a]))) THEN NaN ELSE One])
        X == Tensor([a \in 1..n |->
                 FAdd(FAdd(FMul(Dense(Real(4), I[a]), nomalized[a]),
                           FMul(Dense(One, A[a]), nomalized[a])),
                      FMul(Dense(One, S[a]), nomalized[a]))])
    IN  [x |-> X, mu |-> <<>>, filters |-> <<>>, dir_ij |-> r_ij_norm,
         f_ij |-> radial_feature_vector, rcut_ij |-> rcut_ij]

\* mlp_scalar: two Dense layers into the three channels (I, A, S)
mlp_scalar(c, f) == Dense(Real(c), Act(Dense(Real(2), f)))

TensorNetInteraction_forward(X, pair_indices, d_ij, radial_feature_vector, cutoff) ==
    LET P == Len(d_ij)
        n == Len(X)
        C == Tensor([k \in 1..P |-> CosineCutoff(d_ij[k], cutoff)])
        rfv == Tensor([k \in 1..P |-> [c \in 1..3 |-> FMul(mlp_scalar(c, radial_feature_vector[k]), C[k])]])
        Xn == Tensor([a \in 1..n |-> FDiv(X[a], FAdd(tensor_norm(X[a]), One))])
        IAS == Tensor([a \in 1..n |-> decompose_tensor(Xn[a])])
        I == Tensor([a \in 1..n |-> Dense(One, IAS[a][1])])
        A == Tensor([a \in 1..n |-> Dense(One, IAS[a][2])])
        S == Tensor([a \in 1..n |-> Dense(One, IAS[a][3])])
        Y == Tensor([a \in 1..n |-> FAdd(FAdd(I[a], A[a]), S[a])])
        Im == tensor_message_passing(pair_indices, [k \in 1..P |-> rfv[k][1]], I, n)
        Am == tensor_message_passing(pair_indices, [k \in 1..P |-> rfv[k][2]], A, n)
        Sm == tensor_message_passing(pair_indices, [k \in 1..P |-> rfv[k][3]], S, n)
        msg == Tensor([a \in 1..n |-> FAdd(FAdd(Im[a], Am[a]), Sm[a])])
        \* O(3): decompose((1 + 0.1 q) * (msg Y + Y msg))
        AB == Tensor([a \in 1..n |-> FMul(ChargeFactor, FAdd(FMul(msg[a], Y[a]), FMul(Y[a], msg[a])))])
        IAS2 == Tensor([a \in 1..n |-> decompose_tensor(AB[a])])
        normp1 == Tensor([a \in 1..n |->
            FAdd(tensor_norm(FAdd(FAdd(IAS2[a][1], IAS2[a][2]), IAS2[a][3])), One)])
        dX == Tensor([a \in 1..n |->
                  FAdd(FAdd(Dense(One, FDiv(IAS2[a][1], normp1[a])),
                            Dense(One, FDiv(IAS2[a][2], normp1[a]))),
                       Dense(One, FDiv(IAS2[a][3], normp1[a])))])
        added == Tensor([a \in 1..n |-> FAdd(dX[a], FMul(ChargeFactor, FMul(dX[a], dX[a])))])
        X_new == Tensor([a \in 1..n |-> FAdd(Xn[a], added[a])])
    IN  [ok |-> TRUE, x |-> X_new, mu |-> <<>>,
         old |-> ScalarRows(X), update |-> ScalarRows(added), returned |-> ScalarRows(X_new),
         sender |-> I, weight |-> [k \in 1..P |-> rfv[k][1]], aggregate |-> Im]

(* ------------------------------- AIMNet2 ------------------------------- *)
calculate_contributions(per_atom_feature_tensor, pair_indices, f_ij_cutoff, r_ij) ==
    LET idx_j == pair_indices.j
        P == Len(idx_j)
        n == Len(per_atom_feature_tensor)
        r_ij_norm == Tensor([k \in 1..P |-> norm(r_ij[k])])
        u_ij == Tensor([k \in 1..P |-> [c \in 1..3 |-> FDiv(Real(r_ij[k][c]), Real(r_ij_norm[k]))]])
        proto_v_r_a == Tensor([k \in 1..P |-> FMul(f_ij_cutoff[k], per_atom_feature_tensor[idx_j[k] + 1])])
        radial_contributions == index_add(n, idx_j, proto_v_r_a)
        vector_prot_step1 == Tensor([k \in 1..P |-> VScale(f_ij_cutoff[k], u_ij[k])])
        vector_prot_step2 == Tensor([k \in 1..P |->
            VScale(per_atom_feature_tensor[idx_j[k] + 1], vector_prot_step1[k])])
        vector_contributions == index_add_vec(n, idx_j, vector_prot_step2)
    IN  [radial_contributions |-> radial_contributions,
         vector_norms |-> [a \in 1..n |-> VNorm(vector_contributions[a])]]

\* shared_layers and the delta_a head on cat([radial, vector norm])
delta_a_mlp(radial, vector_norm) ==
    Dense(One, Act(Dense(Half, Act(FAdd(Dense(One, radial), Dense(Half, vector_norm))))))

\* the first interaction module and the update of compute_properties:
\* atomic_embedding = atomic_embedding + delta_a
AIMNet2Interaction_forward(atomic_embedding, pair_indices, f_ij_cutoff, r_ij) ==
    LET n == Len(atomic_embedding)
        contributions == calculate_contributions(atomic_embedding, pair_indices, f_ij_cutoff, r_ij)
        delta_a == Tensor([a \in 1..n |-> delta_a_mlp(contributions.radial_contributions[a],
                                               contributions.vector_norms[a])])
        a_new == Tensor([a \in 1..n |-> FAdd(atomic_embedding[a], delta_a[a])])
    IN  [ok |-> TRUE, x |-> a_new, mu |-> <<>>,
         old |-> ScalarRows(atomic_embedding), update |-> ScalarRows(delta_a),
         returned |-> ScalarRows(a_new),
         sender |-> atomic_embedding, weight |-> f_ij_cutoff,
         aggregate |-> contributions.radial_contributions]

(* -------------------------------- readout ------------------------------ *)
\* Dense with ReLU, then Dense to one value per atom
energy_layer(q) == Dense(Real(2), Act(Dense(One, q)))

\* zeros(len(indices.unique())).scatter_add(0, indices, x): raises when an
\* index is not below the number of distinct indices or when x has fewer
\* entries than indices
\* one output row per atom
number_of_atoms(indices) == Len(indices)
\* len(atomic_subsystem_indices.unique())
number_of_molecules(indices) == Cardinality({indices[k] : k \in 1..Len(indices)})

FromAtomToMoleculeReduction_forward(x, atomic_subsystem_indices) ==
    LET indices == atomic_subsystem_indices
        M == number_of_molecules(indices)
    IN  IF \/ Len(indices) > Len(x)
           \/ \E k \in 1..Len(indices) : indices[k] < 0 \/ indices[k] >= M
        THEN Failed
        ELSE [ok |-> TRUE,
              value |-> index_add(M, indices, SubSeq(x, 1, Len(indices)))]

(* ------------------------- the potential's forward --------------------- *)
Archs == {"schnet", "painn", "tensornet", "aimnet2"}
Elements == {1, 6}
\* two points at distance 3: a pair is coincident (d = 0) or at distance 3
NNPPoints == {<<0, 0, 0>>, <<3, 0, 0>>}
\* below, at and above the distance 3
NNPCutoffs == 2..MaxCutoff
\* AIMNet2 is built with one interaction module, which reads the embedding only
Modules(arch) == IF arch = "aimnet2" THEN 1 ELSE NumLayers

\* the data pipeline numbers the molecules of a batch 0, 1, ... in atom order
IsDense(ids) ==
    ids = <<>> \/ (ids[1] = 0 /\ \A k \in 1..(Len(ids) - 1) : ids[k + 1] \in {ids[k], ids[k] + 1})
NNPBatches ==
    {b \in Batches(MolIds, NNPPoints, Elements) :
        Len(b.atomic_numbers) >= 1 /\ IsDense(b.atomic_subsystem_indices)}

embedding_module(atomic_numbers) == Tensor([a \in 1..Len(atomic_numbers) |-> Embedding(atomic_numbers[a])])

representation_module(arch, batch, pl, cutoff) ==
    LET atomic_embedding == embedding_module(batch.atomic_numbers)
        P == Len(pl.d_ij)
        f_ij == Tensor([k \in 1..P |-> radial_symmetry_function(pl.d_ij[k])])
        f_cutoff == Tensor([k \in 1..P |-> CosineCutoff(pl.d_ij[k], cutoff)])
    IN  CASE arch = "painn" -> PaiNNRepresentation_forward(pl, atomic_embedding, cutoff)
          [] arch = "tensornet" -> TensorNetRepresentation_forward(batch.atomic_numbers, pl, cutoff)
          [] arch = "schnet" ->
                [x |-> atomic_embedding, mu |-> <<>>, filters |-> <<>>, dir_ij |-> <<>>,
                 f_ij |-> f_ij, rcut_ij |-> f_cutoff]
          [] arch = "aimnet2" ->
                \* f_ij_cutoff = torch.mul(f_ij, f_cutoff)
                [x |-> atomic_embedding, mu |-> <<>>, filters |-> <<>>, dir_ij |-> <<>>,
                 f_ij |-> [k \in 1..P |-> FMul(f_ij[k], f_cutoff[k])], rcut_ij |-> f_cutoff]

\* interaction module l applied to the representation; for PaiNN the mixing
\* module of the same pass follows the interaction
interaction_module(arch, r, pl, l, cutoff) ==
    CASE arch = "painn" ->
            LET out == PaiNNInteraction_forward(r.x, r.mu, r.filters[l], r.dir_ij, pl.pair_indices)
                mixed == PaiNNMixing_forward(out.x, out.mu)
            IN  IF ~out.ok THEN Failed ELSE [out EXCEPT !.x = mixed.x, !.mu = mixed.mu]
      [] arch = "schnet" ->
            Schnet_forward_layer(r.x, r.f_ij, pl.pair_indices.i, pl.pair_indices.j, r.rcut_ij)
      [] arch = "tensornet" ->
            TensorNetInteraction_forward(r.x, pl.pair_indices, pl.d_ij, r.f_ij, cutoff)
      [] arch = "aimnet2" ->
            AIMNet2Interaction_forward(r.x, pl.pair_indices, r.f_ij, pl.r_ij)

per_atom_scalar_representation(arch, r) ==
    IF arch = "tensornet" THEN [a \in 1..Len(r.x) |-> tensor_norm(r.x[a])] ELSE r.x

\* E_i = energy_layer(q), then the sum over the atoms of each molecule
readout_module(arch, r, atomic_subsystem_indices) ==
    LET q == per_atom_scalar_representation(arch, r)
        E_i == Tensor([a \in 1..Len(q) |-> energy_layer(q[a])])
    IN  FromAtomToMoleculeReduction_forward(E_i, atomic_subsystem_indices)

RECURSIVE run_interactions(_, _, _, _, _)
\* the features after module l, whose result is out, and the modules after it
after_interaction(arch, r, pl, l, cutoff, out) ==
    IF ~out.ok THEN Failed
    ELSE run_interactions(arch, [r EXCEPT !.x = out.x, !.mu = out.mu], pl, l + 1, cutoff)
run_interactions(arch, r, pl, l, cutoff) ==
    IF l > Modules(arch) THEN [ok |-> TRUE, rep |-> r]
    ELSE CHOOSE result \in {after_interaction(arch, r, pl, l, cutoff, out) :
                                out \in {interaction_module(arch, r, pl, l, cutoff)}} : TRUE

\* the forward call after the readout
NNP_after_readout(pl, e) ==
    IF ~e.ok THEN [ok |-> FALSE, pairlist |-> pl]
    ELSE [ok |-> TRUE, pairlist |-> pl, energy |-> e.value]
\* the forward call after the interaction modules
NNP_after_interactions(batch, cfg, pl, r) ==
    IF ~r.ok THEN [ok |-> FALSE, pairlist |-> pl]
    ELSE CHOOSE result \in {NNP_after_readout(pl, e) :
                                e \in {readout_module(cfg.arch, r.rep,
                                                      batch.atomic_subsystem_indices)}} : TRUE
\* the forward call after the representation module
NNP_after_representation(batch, cfg, pl, r0) ==
    CHOOSE result \in {NNP_after_interactions(batch, cfg, pl, r) :
                           r \in {run_interactions(cfg.arch, r0, pl, 1, cfg.cutoff)}} : TRUE
\* the forward call after the pair list
NNP_after_pairlist(batch, cfg, pl) ==
    IF ~pl.ok THEN Failed
    ELSE CHOOSE result \in {NNP_after_representation(batch, cfg, pl, r0) :
                                r0 \in {representation_module(cfg.arch, batch, pl,
                                                              cfg.cutoff)}} : TRUE
\* one whole forward call on a batch: pairs, representation, interactions, readout
NNP_forward(batch, cfg) ==
    CHOOSE result \in {NNP_after_pairlist(batch, cfg, pl) :
                           pl \in {Neighborlist_forward(batch.positions,
                                                        batch.atomic_subsystem_indices,
                                                        cfg.cutoff, cfg.only_unique_pairs)}} : TRUE

InitNNP ==
    /\ inputs \in NNPBatches
    /\ config \in [class : {"Neighborlist"}, only_unique_pairs : {FALSE},
                   cutoff : NNPCutoffs, arch : Archs]
    /\ pc = "input"
    /\ pairlist = Failed
    /\ rep = Failed
    /\ nlayer = 0
    /\ step = Failed
    /\ energy = Failed
    /\ model = Failed
    /\ given = Failed
    /\ returned = Failed
    /\ ncalls = 0

\* prepare_inputs and the representation module
PrepareInputs ==
    /\ pc = "input"
    /\ config.arch \in Archs
    /\ pairlist' = Neighborlist_forward(inputs.positions, inputs.atomic_subsystem_indices,
                                        config.cutoff, config.only_unique_pairs)
    /\ rep' = IF pairlist'.ok
              THEN representation_module(config.arch, inputs, pairlist', config.cutoff)
              ELSE Failed
    /\ pc' = IF pairlist'.ok THEN "prepared" ELSE "error"
    /\ UNCHANGED <<inputs, config, nlayer, step, energy, model, given, returned, ncalls>>

\* one pass of the loop over the interaction modules
Interaction ==
    /\ pc = "prepared"
    /\ nlayer < Modules(config.arch)
    /\ step' = interaction_module(config.arch, rep, pairlist, nlayer + 1, config.cutoff)
    /\ rep' = IF step'.ok THEN [rep EXCEPT !.x = step'.x, !.mu = step'.mu] ELSE rep
    /\ nlayer' = nlayer + 1
    /\ pc' = IF step'.ok THEN "prepared" ELSE "error"
    /\ UNCHANGED <<inputs, config, pairlist, energy, model, given, returned, ncalls>>

\* the energy readout after the last interaction module
Readout ==
    /\ pc = "prepared"
    /\ nlayer = Modules(config.arch)
    /\ energy' = readout_module(config.arch, rep, inputs.atomic_subsystem_indices)
    /\ pc' = IF energy'.ok THEN "done" ELSE "error"
    /\ UNCHANGED <<inputs, config, pairlist, rep, nlayer, step, model, given, returned, ncalls>>

NextNNP == PrepareInputs \/ Interaction \/ Readout

SpecNNP == InitNNP /\ [][NextNNP]_vars

(* ---------------------- properties of the potential -------------------- *)
NoIncomingPair(a) == \A k \in 1..NumPairs : PairAt(k)[1] # a
Molecules == {asi(a) : a \in Atoms}

\* C8: in every interaction block the message of a pair (i, j) is the filter
\* of the pair times the representation of the sender j = pair_indices[1],
\* and the messages are summed into the slot of the receiver
\* i = pair_indices[0] and nowhere else.
C8_MessageFromSenderSummedAtReceiver ==
    step.ok =>
        /\ \A k \in 1..NumPairs : PairAt(k)[1] + 1 <= Len(step.aggregate)
        /\ \A a \in 1..Len(step.aggregate) :
              step.aggregate[a] =
                  SumAt([k \in 1..NumPairs |->
                            FMul(step.weight[k], step.sender[PairAt(k)[2] + 1])],
                        pairlist.pair_indices.i, a - 1)

\* C9: the representation an interaction layer returns is, entry by entry,
\* the representation passed into the layer plus the layer's update.
C9_ResidualUpdate ==
    step.ok =>
        /\ Len(step.returned) = Len(step.old)
        /\ Len(step.update) = Len(step.old)
        /\ \A a \in 1..Len(step.old) : \A c \in 1..Len(step.old[a]) :
              step.returned[a][c] = FAdd(step.old[a][c], step.update[a][c])

\* what the readout makes of the representation an atom starts with when no
\* message ever reaches it
RECURSIVE mixed_alone(_, _)
mixed_alone(q, l) ==
    IF l = 0 THEN q ELSE mixed_alone(PaiNNMixing_forward(<<q>>, <<VZero>>).x[1], l - 1)
SelfContribution(arch, z) ==
    CASE arch = "painn" -> energy_layer(mixed_alone(Embedding(z), NumLayers))
      [] arch = "tensornet" -> energy_layer(tensor_norm(Fl(0)))
      [] OTHER -> energy_layer(Embedding(z))

\* C10: an atom without incoming pairs causes no error and gets a zero update
\* in every interaction layer, and the energy of a one-atom molecule is the
\* self-contribution derived from its embedding.
C10_IsolatedAtomZeroUpdateNoError ==
    /\ pc = "error" => \A a \in Atoms : ~NoIncomingPair(a)
    /\ step.ok => \A a \in Atoms : NoIncomingPair(a) =>
          /\ a + 1 <= Len(step.update)
          /\ \A c \in 1..Len(step.update[a + 1]) : step.update[a + 1][c] = Fl(0)
    /\ pc = "done" => \A a \in Atoms : MoleculeSize(asi(a)) = 1 =>
          energy.value[asi(a) + 1] = SelfContribution(config.arch, inputs.atomic_numbers[a + 1])

\* the batch without molecule m, the remaining molecules renumbered 0, 1, ...
RemoveMolecule(batch, m) ==
    LET ids == batch.atomic_subsystem_indices
        keep == [k \in 1..Len(ids) |-> ids[k] # m]
        kept == masked_select(ids, keep)
    IN  [atomic_numbers |-> masked_select(batch.atomic_numbers, keep),
         positions |-> masked_select(batch.positions, keep),
         atomic_subsystem_indices |->
             [k \in 1..Len(kept) |-> IF kept[k] > m THEN kept[k] - 1 ELSE kept[k]]]
\* the index of atom a and of molecule n once molecule m is removed
ShiftedAtom(a, m) == Cardinality({b \in Atoms : b < a /\ asi(b) # m})
ShiftedMolecule(n, m) == IF n > m THEN n - 1 ELSE n
OwnPairs(n) == {p \in PairSet : asi(p[1]) = n}
OwnPairsOf(pl, ids, n) ==
    {<<pl.pair_indices.i[k], pl.pair_indices.j[k]>> : k \in
        {k \in 1..Len(pl.pair_indices.i) : ids[pl.pair_indices.i[k] + 1] = n}}

\* C2: for a batch of two or more molecules, running the batch again without
\* one molecule gives every remaining molecule the same own pairs (with
\* shifted atom indices) and the same per-molecule energy.
C2_BatchNonInterference ==
    (pc \in {"done", "error"} /\ Cardinality(Molecules) >= 2) =>
        \A m \in Molecules :
            LET smaller == RemoveMolecule(inputs, m)
                rerun == NNP_forward(smaller, config)
            IN  /\ rerun.ok = (pc = "done")
                /\ \A n \in Molecules \ {m} :
                      /\ {<<ShiftedAtom(p[1], m), ShiftedAtom(p[2], m)>> : p \in OwnPairs(n)}
                             = OwnPairsOf(rerun.pairlist, smaller.atomic_subsystem_indices,
                                          ShiftedMolecule(n, m))
                      /\ (rerun.ok /\ pc = "done") =>
                             energy.value[n + 1] = rerun.energy[ShiftedMolecule(n, m) + 1]

(* --------------------------- the cutoff module ------------------------- *)
\* distances below, at and beyond every cutoff
Distances == 0..(2 * MaxCutoff + 2)
CutoffValues == 1..MaxCutoff

InitCutoff ==
    /\ inputs \in [d_ij : UNION {[1..n -> Distances] : n \in 1..2}]
    /\ config \in [class : {"CosineCutoff"}, only_unique_pairs : {FALSE},
                   cutoff : CutoffValues, arch : {"none"}]
    /\ pc = "input"
    /\ pairlist = Failed
    /\ rep = Failed
    /\ nlayer = 0
    /\ step = Failed
    /\ energy = Failed
    /\ model = Failed
    /\ given = Failed
    /\ returned = Failed
    /\ ncalls = 0

\* CosineCutoff.forward on a tensor of distances
CallCosineCutoff ==
    /\ pc = "input"
    /\ config.class = "CosineCutoff"
    /\ rep' = [ok |-> TRUE,
               rcut_ij |-> [k \in 1..Len(inputs.d_ij) |->
                               CosineCutoff(inputs.d_ij[k], config.cutoff)]]
    /\ pc' = "done"
    /\ UNCHANGED <<inputs, config, pairlist, nlayer, step, energy, model, given, returned, ncalls>>

NextCutoff == CallCosineCutoff

SpecCutoff == InitCutoff /\ [][NextCutoff]_vars

\* C20: the cutoff envelope of a distance d is 0.5 * (cos(pi * d / cutoff) + 1)
\* when d < cutoff and exactly 0 when d >= cutoff, d = cutoff included.
C20_CosineCutoffFormula ==
    (pc = "done" /\ config.class = "CosineCutoff") =>
        \A k \in 1..Len(inputs.d_ij) :
            rep.rcut_ij[k] =
                IF inputs.d_ij[k] < config.cutoff
                THEN FMul(Half, FAdd(cos_pi(inputs.d_ij[k], config.cutoff), One))
                ELSE Fl(0)

\* C20 witness: one distance inside the cutoff with an envelope strictly
\* between 0 and 1, next to a distance beyond the cutoff whose cosine term
\* alone would not vanish.
C20_Witness ==
    /\ pc = "done"
    /\ config.class = "CosineCutoff"
    /\ Len(inputs.d_ij) = 2
    /\ inputs.d_ij[1] < config.cutoff
    /\ rep.rcut_ij[1][1] > 0 /\ rep.rcut_ij[1][1] < Scale
    /\ inputs.d_ij[2] > config.cutoff
    /\ cos_pi(inputs.d_ij[2], config.cutoff) # Real(0 - 1)
    /\ rep.rcut_ij[2] = Fl(0)

(* --------------------- the atom-to-molecule reduction ------------------ *)
\* per-atom values of either sign
PerAtomValues == {Fl(0 - 3), Fl(2), Fl(5)}

InitReduction ==
    /\ inputs \in UNION {[x : [1..n -> PerAtomValues],
                          atomic_subsystem_indices : [1..n -> MolIds]] : n \in 0..MaxAtoms}
    /\ config \in [class : {"FromAtomToMoleculeReduction"}, only_unique_pairs : {FALSE},
                   cutoff : {0}, arch : {"none"}]
    /\ pc = "input"
    /\ pairlist = Failed
    /\ rep = Failed
    /\ nlayer = 0
    /\ step = Failed
    /\ energy = Failed
    /\ model = Failed
    /\ given = Failed
    /\ returned = Failed
    /\ ncalls = 0

\* FromAtomToMoleculeReduction.forward
CallReduction ==
    /\ pc = "input"
    /\ config.class = "FromAtomToMoleculeReduction"
    /\ energy' = FromAtomToMoleculeReduction_forward(inputs.x, inputs.atomic_subsystem_indices)
    /\ pc' = IF energy'.ok THEN "done" ELSE "error"
    /\ UNCHANGED <<inputs, config, pairlist, rep, nlayer, step, model, given, returned, ncalls>>

NextReduction == CallReduction

SpecReduction == InitReduction /\ [][NextReduction]_vars

\* the exact sum of the entries of x at the positions in S
RECURSIVE SumOver(_, _)
SumOver(x, S) ==
    IF S = {} THEN 0
    ELSE LET k == CHOOSE k \in S : TRUE IN x[k][1] + SumOver(x, S \ {k})
AtomsOf(m) == {k \in 1..NumAtoms : inputs.atomic_subsystem_indices[k] = m}
MaxIndex == CHOOSE m \in {asi(a) : a \in Atoms} : \A a \in Atoms : asi(a) <= m

\* C13: the per-molecule values the reduction returns add up to the sum of
\* the per-atom values it was given: no per-atom value is dropped or
\* counted twice.
C13_ReductionExactness ==
    (pc = "done" /\ config.class = "FromAtomToMoleculeReduction") =>
        /\ \A m \in 1..Len(energy.value) : ~IsNaN(energy.value[m])
        /\ SumOver(energy.value, 1..Len(energy.value)) = SumOver(inputs.x, 1..NumAtoms)

\* C13 witness: three atoms in two molecules, listed out of molecule order,
\* reduced to two values.
C13_Witness ==
    /\ pc = "done"
    /\ config.class = "FromAtomToMoleculeReduction"
    /\ inputs.atomic_subsystem_indices = <<1, 0, 1>>
    /\ Len(energy.value) = 2
    /\ SumOver(inputs.x, 1..NumAtoms) # 0

\* C14: the reduction returns M = max(subsystem_indices) + 1 entries (none
\* for a batch without atoms), and entry m is the sum of the per-atom values
\* of exactly the atoms whose subsystem index is m.
C14_ReductionPerMolecule ==
    (pc = "done" /\ config.class = "FromAtomToMoleculeReduction") =>
        /\ Len(energy.value) = IF NumAtoms = 0 THEN 0 ELSE MaxIndex + 1
        /\ \A m \in 1..Len(energy.value) :
              energy.value[m] = Fl(SumOver(inputs.x, AtomsOf(m - 1)))

\* C14 witness: a molecule of two atoms and a molecule of one atom, with
\* different sums.
C14_Witness ==
    /\ pc = "done"
    /\ config.class = "FromAtomToMoleculeReduction"
    /\ Cardinality(AtomsOf(0)) = 2
    /\ Cardinality(AtomsOf(1)) = 1
    /\ energy.value[1] # energy.value[2]
    /\ energy.value[1] = FAdd(inputs.x[CHOOSE k \in AtomsOf(0) : TRUE],
                              inputs.x[CHOOSE k \in AtomsOf(0) : \A l \in AtomsOf(0) : l <= k])

(* ------------------------- the unit direction -------------------------- *)
\* C19: for every pair, two coincident atoms (d_ij = 0) included, the unit
\* direction held by the representation is r_ij / (d_ij + eps) and is
\* finite; eps lies below the resolution of the model, so the guarded
\* quotient is r_ij / d_ij for d_ij > 0 and 0 for coincident atoms.
C19_DirectionFinite ==
    (config.arch \in Archs /\ pc \in {"prepared", "done"}) =>
        \A k \in 1..Len(rep.dir_ij) : \A c \in 1..3 :
            /\ ~IsNaN(rep.dir_ij[k][c])
            /\ rep.dir_ij[k][c] =
                  IF pairlist.d_ij[k] = 0 THEN Fl(0)
                  ELSE FDiv(Real(pairlist.r_ij[k][c]), Real(pairlist.d_ij[k]))

(* ------------------------ repeated forward calls ----------------------- *)
\* the dtype of the parameters and of a positions tensor
Dtypes == {"float32", "float64"}
\* positions are a Quantity in nanometer or angstrom, or a plain tensor ("none")
LengthUnits == {"nanometer", "angstrom", "none"}
MaxCalls == 2

\* Quantity.to(unit.nanometer).m: 10 angstrom are 1 nanometer
to_nanometer(positions) ==
    IF positions.unit = "angstrom"
    THEN [a \in 1..Len(positions.values) |->
             [c \in 1..3 |-> positions.values[a][c] \div 10]]
    ELSE positions.values

\* the length checks of NNPInput._validate_inputs
validate_inputs(obj) ==
    /\ Len(obj.positions.values) = Len(obj.atomic_numbers)
    /\ Len(obj.positions.values) = Len(obj.atomic_subsystem_indices)

\* NNPInput.__post_init__: positions given as a Quantity become a float32
\* tensor of nanometer values, then the inputs are validated
NNPInput_post_init(raw) ==
    LET positions ==
            IF raw.positions.unit # "none"
            THEN [values |-> to_nanometer(raw.positions), dtype |-> "float32", unit |-> "none"]
            ELSE raw.positions
        obj == [raw EXCEPT !.positions = positions, !.kind = "NNPInput"]
    IN  IF validate_inputs(obj) THEN [ok |-> TRUE, value |-> obj] ELSE Failed

\* BaseNNP.__init__ with the parameters and the dataset statistics it is given
BaseNNP_init(param_dtype, energies) ==
    [param_dtype |-> param_dtype, dtype |-> "None",
     log_message_dtype |-> FALSE, log_message_units |-> FALSE,
     energies |-> energies, cache |-> <<>>]

\* a _set_dtype that keeps the dtype it has once set
set_dtype_once(mdl) ==
    [mdl EXCEPT !.dtype = IF mdl.dtype = "None" THEN mdl.param_dtype ELSE mdl.dtype,
                !.log_message_dtype = TRUE]
\* BaseNNP._set_dtype: the dtype of the parameters, whatever was set before
set_dtype(mdl) == [mdl EXCEPT !.dtype = mdl.param_dtype, !.log_message_dtype = TRUE]

\* BaseNNP._input_checks: positions are cast to the dtype of the model (a
\* Quantity cannot be cast: its to() takes a unit), a Quantity is replaced by
\* its nanometer values, a plain tensor is taken to be in nanometer; the
\* entry of the caller's batch is overwritten
input_checks(batch, mdl) ==
    LET p == batch.positions
    IN  IF p.dtype # mdl.dtype /\ p.unit # "none"
        THEN [ok |-> FALSE, inputs |-> batch, model |-> mdl]
        ELSE IF p.unit # "none"
        THEN [ok |-> TRUE,
              inputs |-> [batch EXCEPT !.positions =
                             [values |-> to_nanometer(p), dtype |-> mdl.dtype, unit |-> "none"]],
              model |-> mdl]
        ELSE [ok |-> TRUE,
              inputs |-> [batch EXCEPT !.positions = [p EXCEPT !.dtype = mdl.dtype]],
              model |-> [mdl EXCEPT !.log_message_units = TRUE]]

\* AtomicSelfEnergies.ase_tensor_for_indexing: built from the energies on the
\* first access, afterwards the tensor kept by the object (cache is <<>>
\* for None and <<tensor>> once built)
ase_tensor_for_indexing(mdl) ==
    IF mdl.cache = <<>> THEN [z \in DOMAIN mdl.energies |-> mdl.energies[z]]
    ELSE mdl.cache[1]

\* an update that keeps the lookup tensor of the replaced object
update_energies_only(mdl, energies) == [mdl EXCEPT !.energies = energies]
\* EnergyScaling.update_dataset_statistics(atomic_self_energies=...): a new
\* AtomicSelfEnergies object, whose lookup tensor is not built yet
update_dataset_statistics(mdl, energies) ==
    [mdl EXCEPT !.energies = energies, !.cache = <<>>]

\* energies that are returned as the network computed them
raw_energy(e, stddev, mean) == e
\* EnergyScaling._rescale_energy for one energy:
\* energies * scaling_stddev + scaling_mean
rescale_energy(e, stddev, mean) == FAdd(FMul(e, stddev), mean)
\* EnergyScaling._calculate_molecular_self_energy: the lookup tensor is
\* gathered per atom and scattered into zeros(number_of_molecules)
calculate_molecular_self_energy(batch, ase_tensor, M) ==
    index_add(M, batch.atomic_subsystem_indices,
              Tensor([a \in 1..Len(batch.atomic_subsystem_indices) |->
                         ase_tensor[batch.atomic_numbers[a]]]))

\* EnergyScaling._energy_postprocessing with the default scaling (stddev 1,
\* mean 0): the molecular self energy is scattered from the lookup tensor
\* into zeros(properties_per_molecule.numel())
energy_postprocessing(properties_per_molecule, batch, mdl, dtype) ==
    LET ase_tensor == ase_tensor_for_indexing(mdl)
        indices == batch.atomic_subsystem_indices
        M == Len(properties_per_molecule)
        rescaled == Tensor([m \in 1..M |-> rescale_energy(properties_per_molecule[m], One, Fl(0))])
        molecular_ase == calculate_molecular_self_energy(batch, ase_tensor, M)
    IN  IF \/ Len(indices) > Len(batch.atomic_numbers)
           \/ \E k \in 1..Len(indices) : indices[k] < 0 \/ indices[k] >= M
        THEN [ok |-> FALSE, cache |-> ase_tensor]
        ELSE [ok |-> TRUE, cache |-> ase_tensor,
              value |-> [ok |-> TRUE, dtype |-> dtype,
                         raw_E |-> properties_per_molecule,
                         rescaled_E |-> rescaled,
                         molecular_ase |-> molecular_ase,
                         E |-> Tensor([m \in 1..M |-> FAdd(rescaled[m], molecular_ase[m])])]]

\* torch.repeat_interleave(total_charge, atomic_subsystem_indices.bincount()),
\* read by TensorNet only: one charge per row of the bincount, or an error
expanded_total_charge(arch, per_system_total_charge, atomic_subsystem_indices) ==
    arch # "tensornet" \/ Len(per_system_total_charge) = scatter_size(atomic_subsystem_indices)

\* the loop over the interaction modules, keeping what the last module
\* read, aggregated and returned
RECURSIVE run_modules(_, _, _, _, _, _)
\* the features after module l, whose result is out, and the modules after it
after_module(arch, r, pl, l, cutoff, out) ==
    IF ~out.ok THEN [ok |-> FALSE, rep |-> r, step |-> Failed, nlayer |-> l - 1]
    ELSE run_modules(arch, [r EXCEPT !.x = out.x, !.mu = out.mu], pl, l + 1, cutoff, out)
run_modules(arch, r, pl, l, cutoff, last) ==
    IF l > Modules(arch) THEN [ok |-> TRUE, rep |-> r, step |-> last, nlayer |-> l - 1]
    ELSE CHOOSE result \in {after_module(arch, r, pl, l, cutoff, out) :
                                out \in {interaction_module(arch, r, pl, l, cutoff)}} : TRUE

\* the trace of a call that raised before anything was computed: the batch
\* and the potential as the checks left them
raised(b, mdl) ==
    [inputs |-> b, model |-> mdl, pairlist |-> Failed, rep |-> Failed,
     nlayer |-> 0, step |-> Failed, energy |-> Failed, returned |-> Failed]
\* BaseNNP.forward after _energy_postprocessing: the lookup tensor stays with
\* the potential and the processed energies are returned
forward_after_postprocessing(b, mdl, pl, run, e, post) ==
    [inputs |-> b, model |-> [mdl EXCEPT !.cache = <<post.cache>>],
     pairlist |-> pl, rep |-> run.rep, nlayer |-> run.nlayer, step |-> run.step,
     energy |-> e, returned |-> IF post.ok THEN post.value ELSE Failed]
\* BaseNNP.forward after _readout
forward_after_readout(b, mdl, pl, run, e) ==
    IF ~e.ok
    THEN [raised(b, mdl) EXCEPT !.pairlist = pl, !.rep = run.rep, !.nlayer = run.nlayer,
                                !.step = run.step]
    ELSE CHOOSE result \in {forward_after_postprocessing(b, mdl, pl, run, e, post) :
                                post \in {energy_postprocessing(e.value, b, mdl, mdl.dtype)}} : TRUE
\* BaseNNP.forward after the interaction modules of _forward
forward_after_interactions(b, mdl, cfg, pl, run) ==
    IF ~run.ok
    THEN [raised(b, mdl) EXCEPT !.pairlist = pl, !.rep = run.rep, !.nlayer = run.nlayer]
    ELSE CHOOSE result \in {forward_after_readout(b, mdl, pl, run, e) :
                                e \in {readout_module(cfg.arch, run.rep,
                                                      b.atomic_subsystem_indices)}} : TRUE
\* BaseNNP.forward after the representation module of _forward
forward_after_representation(b, mdl, cfg, pl, r0) ==
    IF ~expanded_total_charge(cfg.arch, b.total_charge, b.atomic_subsystem_indices)
    THEN [raised(b, mdl) EXCEPT !.pairlist = pl, !.rep = r0]
    ELSE CHOOSE result \in {forward_after_interactions(b, mdl, cfg, pl, run) :
                                run \in {run_modules(cfg.arch, r0, pl, 1, cfg.cutoff, Failed)}} :
             TRUE
\* BaseNNP.forward after prepare_inputs (the pair list)
forward_after_prepare_inputs(b, mdl, cfg, pl) ==
    IF ~pl.ok THEN raised(b, mdl)
    ELSE CHOOSE result \in
             {forward_after_representation(b, mdl, cfg, pl, r0) :
                 r0 \in {representation_module(cfg.arch,
                             [atomic_numbers |-> b.atomic_numbers,
                              positions |-> b.positions.values,
                              atomic_subsystem_indices |-> b.atomic_subsystem_indices],
                             pl, cfg.cutoff)}} : TRUE
\* BaseNNP.forward after _input_checks
forward_after_input_checks(chk, cfg) ==
    IF ~chk.ok THEN raised(chk.inputs, chk.model)
    ELSE CHOOSE result \in
             {forward_after_prepare_inputs(chk.inputs, chk.model, cfg, pl) :
                 pl \in {Neighborlist_forward(chk.inputs.positions.values,
                                              chk.inputs.atomic_subsystem_indices,
                                              cfg.cutoff, cfg.only_unique_pairs)}} : TRUE
\* BaseNNP.forward: _set_dtype, _input_checks, prepare_inputs, _forward,
\* _readout and the energy postprocessing; the result names what the call
\* left in the caller's batch and in the potential, what it computed on the
\* way, and what it returned. Every stage is evaluated once and its value
\* handed to the next (the one-element sets bind the value).
BaseNNP_forward(batch, cfg, mdl) ==
    CHOOSE result \in {forward_after_input_checks(chk, cfg) :
                           chk \in {input_checks(batch, set_dtype(mdl))}} : TRUE

\* the batches a caller builds: atoms alternate between H at the origin and
\* C at distance 3 (30 when the positions are given in angstrom)
CallSizes == 1..2
SelfEnergies == {[z \in Elements |-> Fl(0)], [z \in Elements |-> Fl(0 - 8 * z)]}
RawBatch(n, ids, dtype, unit, charge_extra, number_extra) ==
    [kind |-> "dict",
     atomic_numbers |-> [a \in 1..(n + number_extra) |-> IF a % 2 = 1 THEN 1 ELSE 6],
     positions |-> [values |-> [a \in 1..n |->
                                   <<IF a % 2 = 1 THEN 0
                                     ELSE IF unit = "angstrom" THEN 30 ELSE 3, 0, 0>>],
                    dtype |-> dtype, unit |-> unit],
     atomic_subsystem_indices |-> ids,
     total_charge |-> [m \in 1..(number_of_molecules(ids) + charge_extra) |-> 0]]
\* subsystem indices that are exactly 0..M-1, in any order
DenseRange(ids) == {ids[k] : k \in 1..Len(ids)} = 0..(number_of_molecules(ids) - 1)
RawBatches ==
    {RawBatch(n, ids, dtype, unit, ce, ne) :
        n \in CallSizes, ids \in UNION {[1..k -> MolIds] : k \in CallSizes},
        dtype \in Dtypes, unit \in LengthUnits, ce \in 0..1, ne \in 0..1}
\* well-formed batches and batches that are off in one respect
OffInAtMostOne(b) ==
    /\ Len(b.atomic_subsystem_indices) = Len(b.positions.values)
    /\ LET ids == b.atomic_subsystem_indices
           n == Len(ids)
           ce == Len(b.total_charge) - number_of_molecules(ids)
           ne == Len(b.atomic_numbers) - n
       IN  /\ (IF DenseRange(ids) THEN 0 ELSE 1) + (IF b.positions.dtype = "float32" THEN 0 ELSE 1)
              + (IF b.positions.unit = "none" THEN 0 ELSE 1) + ce + ne <= 1
           /\ ce = 1 => n = 2
CallBatches == {b \in RawBatches : OffInAtMostOne(b)}

InitCalls ==
    /\ model \in {BaseNNP_init(d, e) : d \in Dtypes, e \in SelfEnergies}
    /\ config \in [class : {"BaseNNP"}, only_unique_pairs : {FALSE}, cutoff : {4},
                   arch : {"schnet", "tensornet"}]
    /\ pc = "idle"
    /\ inputs = Failed
    /\ given = Failed
    /\ pairlist = Failed
    /\ rep = Failed
    /\ nlayer = 0
    /\ step = Failed
    /\ energy = Failed
    /\ returned = Failed
    /\ ncalls = 0

\* the caller, done with the last batch and its result, builds an NNPInput
\* from its arrays
NewNNPInput ==
    /\ config.class = "BaseNNP"
    /\ pc # "batch"
    /\ \E raw \in CallBatches :
          LET obj == NNPInput_post_init(raw)
          IN  /\ given' = raw
              /\ inputs' = IF obj.ok THEN obj.value ELSE Failed
              /\ pc' = IF obj.ok THEN "batch" ELSE "rejected"
    /\ pairlist' = Failed
    /\ rep' = Failed
    /\ nlayer' = 0
    /\ step' = Failed
    /\ energy' = Failed
    /\ returned' = Failed
    /\ UNCHANGED <<config, model, ncalls>>

\* the caller, done with the last batch and its result, puts its arrays into
\* a dictionary
NewDict ==
    /\ config.class = "BaseNNP"
    /\ pc # "batch"
    /\ \E raw \in CallBatches :
          /\ given' = raw
          /\ inputs' = raw
    /\ pc' = "batch"
    /\ pairlist' = Failed
    /\ rep' = Failed
    /\ nlayer' = 0
    /\ step' = Failed
    /\ energy' = Failed
    /\ returned' = Failed
    /\ UNCHANGED <<config, model, ncalls>>

\* one forward call on the batch object the caller holds, for the first
\* time or again
Forward ==
    /\ config.class = "BaseNNP"
    /\ pc \in {"batch", "returned", "error"}
    /\ \E out \in {BaseNNP_forward(inputs, config, model)} :
           /\ given' = inputs
           /\ inputs' = out.inputs
           /\ model' = out.model
           /\ pairlist' = out.pairlist
           /\ rep' = out.rep
           /\ nlayer' = out.nlayer
           /\ step' = out.step
           /\ energy' = out.energy
           /\ returned' = out.returned
           /\ pc' = IF out.returned.ok THEN "returned" ELSE "error"
    /\ ncalls' = IF ncalls < MaxCalls THEN ncalls + 1 ELSE ncalls
    /\ UNCHANGED config

\* nn.Module.to(dtype) between two calls
To ==
    /\ config.class = "BaseNNP"
    /\ \E d \in Dtypes \ {model.param_dtype} : model' = [model EXCEPT !.param_dtype = d]
    /\ pc' = IF pc \in {"returned", "error"} THEN "batch" ELSE pc
    /\ UNCHANGED <<inputs, config, pairlist, rep, nlayer, step, energy, given, returned, ncalls>>

\* update_dataset_statistics between two calls
UpdateDatasetStatistics ==
    /\ config.class = "BaseNNP"
    /\ \E e \in SelfEnergies \ {model.energies} : model' = update_dataset_statistics(model, e)
    /\ pc' = IF pc \in {"returned", "error"} THEN "batch" ELSE pc
    /\ UNCHANGED <<inputs, config, pairlist, rep, nlayer, step, energy, given, returned, ncalls>>

NextCalls == NewNNPInput \/ NewDict \/ Forward \/ To \/ UpdateDatasetStatistics

SpecCalls == InitCalls /\ [][NextCalls]_vars

(* ------------------ properties of repeated forward calls --------------- *)
\* a forward call on the batch `given` has run and left its trace
Called == config.class = "BaseNNP" /\ pc \in {"returned", "error"}
\* the per-atom energies the readout reduces
E_i == [a \in 1..Len(rep.x) |->
           energy_layer(per_atom_scalar_representation(config.arch, rep)[a])]
\* the self energy of every atom of the batch
AtomSelfEnergies == [a \in 1..NumAtoms |-> model.energies[inputs.atomic_numbers[a]]]

\* C11: in any sequence of forward calls on one potential every
\* scatter-reduction of a call starts from zero: the messages aggregated by
\* the last interaction module are the sums over the pairs of this call, and
\* the per-molecule sums of the readout and of the self energies are the
\* sums over the atoms of this call, with nothing left from an earlier call.
C11_FreshAccumulators ==
    Called =>
        /\ step.ok =>
              \A a \in 1..Len(step.aggregate) :
                  step.aggregate[a] =
                      SumAt([k \in 1..NumPairs |->
                                FMul(step.weight[k], step.sender[PairAt(k)[2] + 1])],
                            pairlist.pair_indices.i, a - 1)
        /\ energy.ok =>
              \A m \in 1..Len(energy.value) :
                  energy.value[m] = Fl(SumOver(E_i, AtomsOf(m - 1)))
        /\ returned.ok =>
              \A m \in 1..Len(returned.molecular_ase) :
                  returned.molecular_ase[m] = Fl(SumOver(AtomSelfEnergies, AtomsOf(m - 1)))

\* C11 witness: a second or later call that returned, with messages
\* aggregated at some atom and non-zero per-molecule sums.
C11_Witness ==
    /\ Called
    /\ ncalls >= 2
    /\ returned.ok
    /\ \E a \in 1..Len(step.aggregate) : step.aggregate[a] # Fl(0)
    /\ \E m \in 1..Len(energy.value) : energy.value[m] # Fl(0)
    /\ \E m \in 1..Len(returned.molecular_ase) : returned.molecular_ase[m] # Fl(0)

\* C12: a forward call returns what a newly constructed potential with the
\* same parameters and statistics returns for the same batch, whatever calls
\* were made before: the dtype kept from an earlier call, the logging flags
\* and the kept self-energy lookup tensor have no influence on the output.
C12_OutputIndependentOfEarlierCalls ==
    Called =>
        returned = BaseNNP_forward(given, config,
                                   BaseNNP_init(model.param_dtype, model.energies)).returned

\* C12 witness: a second or later call that returned self energies, made
\* after the flags were set and on a potential moved to float64.
C12_Witness ==
    /\ Called
    /\ ncalls >= 2
    /\ returned.ok
    /\ returned.dtype = "float64"
    /\ model.log_message_dtype /\ model.log_message_units
    /\ \E m \in 1..Len(returned.molecular_ase) : returned.molecular_ase[m] # Fl(0)

\* nothing was computed and nothing was returned
NoNumericWork ==
    /\ pairlist = Failed
    /\ rep = Failed
    /\ step = Failed
    /\ energy = Failed
    /\ returned = Failed

\* C15: a batch whose subsystem indices are not a dense range 0..M-1 is
\* rejected with an error before pairs are enumerated, features computed or
\* values reduced, and never yields a per-molecule output.
C15_NonDenseRejectedFirst ==
    (Called /\ ~DenseRange(given.atomic_subsystem_indices)) =>
        pc = "error" /\ NoNumericWork

\* coupled arrays of the batch disagree in their leading dimension
Mismatched(b) ==
    \/ Len(b.atomic_numbers) # Len(b.positions.values)
    \/ Len(b.atomic_subsystem_indices) # Len(b.positions.values)
    \/ Len(b.total_charge) # number_of_molecules(b.atomic_subsystem_indices)

\* C16: when coupled arrays of the batch disagree in their leading dimension
\* the forward call is aborted by a check that runs before any numeric work
\* and returns nothing; the arrays are never silently used together.
C16_ShapeMismatchRejectedFirst ==
    (Called /\ Mismatched(given)) => pc = "error" /\ NoNumericWork

\* the program has processed the batch `given`: built an NNPInput from it,
\* rejected it, or run a forward call on it
Processed ==
    /\ config.class = "BaseNNP"
    /\ \/ pc \in {"rejected", "returned", "error"}
       \/ pc = "batch" /\ inputs.kind = "NNPInput"

\* C17: positions that are not in nanometer cause an explicit error and are
\* never rescaled.
C17_UnitMismatchIsFatal ==
    (Processed /\ given.positions.unit = "angstrom") =>
        /\ pc \in {"rejected", "error"}
        /\ NoNumericWork
        /\ inputs # Failed => inputs.positions.values = given.positions.values

\* C18: after a forward call the batch object of the caller holds the same
\* positions (numbers, unit and precision) and the same other arrays as
\* before the call.
C18_InputsNotMutated ==
    Called =>
        /\ inputs.positions.values = given.positions.values
        /\ inputs.positions.unit = given.positions.unit
        /\ inputs.positions.dtype = given.positions.dtype
        /\ inputs.atomic_numbers = given.atomic_numbers
        /\ inputs.atomic_subsystem_indices = given.atomic_subsystem_indices
        /\ inputs.total_charge = given.total_charge

(* ------------------------- running statistics -------------------------- *)
\* Numbers of the statistics are exact fractions <<numerator, denominator>>
\* with a positive denominator, in lowest terms.
RECURSIVE GCD(_, _)
GCD(a, b) == IF b = 0 THEN a ELSE GCD(b, a % b)
Norm(num, den) ==
    LET g == GCD(Abs(num), den) IN IF num = 0 THEN <<0, 1>> ELSE <<num \div g, den \div g>>
Q(k) == <<k, 1>>
QAdd(a, b) == Norm(a[1] * b[2] + b[1] * a[2], a[2] * b[2])
QSub(a, b) == Norm(a[1] * b[2] - b[1] * a[2], a[2] * b[2])
QMul(a, b) == Norm(a[1] * b[1], a[2] * b[2])
\* division by a positive integer
QDivInt(a, k) == Norm(a[1], a[2] * k)
\* torch.sum of a batch of fractions
RECURSIVE QSum(_)
QSum(xs) == IF xs = <<>> THEN Q(0) ELSE QAdd(Head(xs), QSum(Tail(xs)))
\* torch.mean(batch)
torch_mean(batch) == QDivInt(QSum([k \in 1..Len(batch) |-> Q(batch[k])]), Len(batch))
\* torch.sum((batch - new_mean) ** 2)
sum_of_squares(batch, new_mean) ==
    QSum([k \in 1..Len(batch) |->
             QMul(QSub(Q(batch[k]), new_mean), QSub(Q(batch[k]), new_mean))])

MaxSeen == 4
MaxBatch == 2
\* the energies a batch holds
SampleValues == {0 - 2, 0, 1, 3}
SampleBatches == UNION {[1..k -> SampleValues] : k \in 1..MaxBatch}

\* Welford.__init__: the counters are Python integers
Welford_init == [n |-> 0, mean |-> [type |-> "int", q |-> Q(0)], M2 |-> [type |-> "int", q |-> Q(0)]]

\* Welford.update(batch) for a non-empty batch
Welford_update(w, batch) ==
    LET batch_size == Len(batch)
        new_mean == torch_mean(batch)
        new_M2 == sum_of_squares(batch, new_mean)
        delta == QSub(new_mean, w.mean.q)
    IN  [n |-> w.n + batch_size,
         mean |-> [type |-> "tensor",
                   q |-> QAdd(w.mean.q, QDivInt(QMul(delta, Q(batch_size)), w.n + batch_size))],
         M2 |-> [type |-> "tensor",
                 q |-> QAdd(w.M2.q,
                            QAdd(new_M2,
                                 QDivInt(QMul(QMul(delta, delta), Q(w.n * batch_size)),
                                         w.n + batch_size)))]]

\* Welford.variance: self._M2 / self._n if self._n > 1 else 0
Welford_variance(w) ==
    IF w.n > 1 THEN [type |-> w.M2.type, q |-> QDivInt(w.M2.q, w.n)]
    ELSE [type |-> "int", q |-> Q(0)]
\* torch.sqrt accepts a tensor only; the root is rounded down to 1/Scale
torch_sqrt(x) ==
    IF x.type # "tensor" THEN Failed
    ELSE [ok |-> TRUE,
          value |-> CHOOSE r \in 0..(Scale * 8) :
                        /\ r * r * x.q[2] <= x.q[1] * Scale * Scale
                        /\ (r + 1) * (r + 1) * x.q[2] > x.q[1] * Scale * Scale]
\* Welford.stddev
Welford_stddev(w) == torch_sqrt(Welford_variance(w))
\* Welford.mean
Welford_mean(w) == w.mean

InitWelford ==
    /\ config \in [class : {"Welford"}, only_unique_pairs : {FALSE}, cutoff : {0},
                   arch : {"none"}]
    /\ model = Welford_init
    /\ inputs = <<>>
    /\ given = <<>>
    /\ returned = Failed
    /\ pc = "constructed"
    /\ pairlist = Failed
    /\ rep = Failed
    /\ nlayer = 0
    /\ step = Failed
    /\ energy = Failed
    /\ ncalls = 0

\* online_estimator.update(batch): inputs keeps every value seen so far
Update ==
    /\ config.class = "Welford"
    /\ \E batch \in SampleBatches :
          /\ Len(inputs) + Len(batch) <= MaxSeen
          /\ model' = Welford_update(model, batch)
          /\ inputs' = inputs \o batch
          /\ given' = batch
    /\ pc' = "updated"
    /\ returned' = Failed
    /\ ncalls' = ncalls + 1
    /\ UNCHANGED <<config, pairlist, rep, nlayer, step, energy>>

\* the caller reads mean, variance and stddev
ReadStatistics ==
    /\ config.class = "Welford"
    /\ pc # "read"
    /\ returned' = [ok |-> Welford_stddev(model).ok, mean |-> Welford_mean(model),
                    variance |-> Welford_variance(model), stddev |-> Welford_stddev(model)]
    /\ pc' = "read"
    /\ UNCHANGED <<inputs, config, pairlist, rep, nlayer, step, energy, model, given, ncalls>>

NextWelford == Update \/ ReadStatistics

SpecWelford == InitWelford /\ [][NextWelford]_vars

\* the arithmetic mean and the population variance of the values seen
MeanOfSeen == torch_mean(inputs)
VarianceOfSeen == QDivInt(sum_of_squares(inputs, MeanOfSeen), Len(inputs))

\* C30: after any sequence of updates with non-empty batches the mean is the
\* arithmetic mean of all values seen and the variance their population
\* variance, however the values were grouped; with at most one value seen
\* the variance is 0 and the standard deviation is defined and 0.
C30_WelfordStatistics ==
    (config.class = "Welford" /\ pc = "read") =>
        /\ Len(inputs) >= 1 => returned.mean.q = MeanOfSeen
        /\ Len(inputs) >= 1 => returned.variance.q = VarianceOfSeen
        /\ Len(inputs) <= 1 =>
              /\ returned.variance.q = Q(0)
              /\ returned.stddev.ok
              /\ returned.stddev.value = 0

\* the mean and the variance alone
WelfordMeanAndVariance ==
    (config.class = "Welford" /\ pc = "read" /\ Len(inputs) >= 1) =>
        /\ returned.mean.q = MeanOfSeen
        /\ returned.variance.q = VarianceOfSeen

(* ----------------------------- file locks ------------------------------ *)
\* Processes that open one and the same file.  Every open() gives the process
\* a file handle of its own; flock locks belong to the handle, and the
\* exclusive lock of the file is held by at most one handle (model.holder is
\* the process whose handle holds it, NoHolder when the file is unlocked).
Procs == 1..3
NoHolder == 0

\* a kernel that grants the exclusive lock to every caller
always_granted(holder, p) == TRUE
\* fcntl.flock(fd, LOCK_EX): granted when no other handle holds the lock
granted(holder, p) == holder = NoHolder \/ holder = p

\* lock_file(file_handle): blocks until the lock is granted, then holds it
lock_file(holder, p) == p
\* unlock_file(file_handle); closing the handle releases its lock as well
unlock_file(holder, p) == IF holder = p THEN NoHolder ELSE holder
\* check_file_lock(file_handle): flock(LOCK_EX | LOCK_NB) either raises, and
\* True is returned, or takes the lock, and False is returned
check_file_lock(holder, p) ==
    IF granted(holder, p) THEN [locked |-> FALSE, holder |-> p]
    ELSE [locked |-> TRUE, holder |-> holder]

InitLock ==
    /\ config \in [class : {"OpenWithLock"}, only_unique_pairs : {FALSE}, cutoff : {0},
                   arch : {"none"}]
    /\ model = [holder |-> NoHolder]
    /\ inputs = [p \in Procs |-> "closed"]
    /\ returned = [p \in Procs |-> "none"]
    /\ given = Failed
    /\ pc = "running"
    /\ pairlist = Failed
    /\ rep = Failed
    /\ nlayer = 0
    /\ step = Failed
    /\ energy = Failed
    /\ ncalls = 0

LockFrame == UNCHANGED <<config, pc, pairlist, rep, nlayer, step, energy, ncalls>>

\* OpenWithLock.__enter__: open(self._file_path, self._mode)
EnterOpen(p) ==
    /\ inputs[p] = "closed"
    /\ inputs' = [inputs EXCEPT ![p] = "enter_opened"]
    /\ returned' = [returned EXCEPT ![p] = "none"]
    /\ UNCHANGED <<model, given>>
    /\ LockFrame
\* OpenWithLock.__enter__: if check_file_lock(self._file_handle): log
EnterCheck(p) ==
    /\ inputs[p] = "enter_opened"
    /\ \E r \in {check_file_lock(model.holder, p)} :
          /\ model' = [holder |-> r.holder]
          /\ returned' = [returned EXCEPT ![p] = IF r.locked THEN "True" ELSE "False"]
          /\ given' = [ok |-> TRUE, proc |-> p, before |-> model.holder,
                       after |-> r.holder, locked |-> r.locked]
    /\ inputs' = [inputs EXCEPT ![p] = "enter_checked"]
    /\ LockFrame
\* OpenWithLock.__enter__: lock_file(self._file_handle); the with-block begins
EnterLock(p) ==
    /\ inputs[p] = "enter_checked"
    /\ granted(model.holder, p)
    /\ model' = [holder |-> lock_file(model.holder, p)]
    /\ inputs' = [inputs EXCEPT ![p] = "in_block"]
    /\ UNCHANGED <<given, returned>>
    /\ LockFrame
\* OpenWithLock.__exit__: unlock_file and close
Exit(p) ==
    /\ inputs[p] = "in_block"
    /\ model' = [holder |-> unlock_file(model.holder, p)]
    /\ inputs' = [inputs EXCEPT ![p] = "closed"]
    /\ UNCHANGED <<given, returned>>
    /\ LockFrame
\* with open(path) as f: a handle without OpenWithLock
PlainOpen(p) ==
    /\ inputs[p] = "closed"
    /\ inputs' = [inputs EXCEPT ![p] = "opened"]
    /\ returned' = [returned EXCEPT ![p] = "none"]
    /\ UNCHANGED <<model, given>>
    /\ LockFrame
\* is_locked = check_file_lock(f) on such a handle
CheckFileLock(p) ==
    /\ inputs[p] = "opened"
    /\ returned[p] = "none"
    /\ \E r \in {check_file_lock(model.holder, p)} :
          /\ model' = [holder |-> r.holder]
          /\ returned' = [returned EXCEPT ![p] = IF r.locked THEN "True" ELSE "False"]
          /\ given' = [ok |-> TRUE, proc |-> p, before |-> model.holder,
                       after |-> r.holder, locked |-> r.locked]
    /\ UNCHANGED inputs
    /\ LockFrame
\* the end of with open(path) as f: closing the handle drops its lock
PlainClose(p) ==
    /\ inputs[p] = "opened"
    /\ model' = [holder |-> unlock_file(model.holder, p)]
    /\ inputs' = [inputs EXCEPT ![p] = "closed"]
    /\ UNCHANGED <<given, returned>>
    /\ LockFrame

NextLock ==
    \E p \in Procs :
        \/ EnterOpen(p)
        \/ EnterCheck(p)
        \/ EnterLock(p)
        \/ Exit(p)
        \/ PlainOpen(p)
        \/ CheckFileLock(p)
        \/ PlainClose(p)

SpecLock == InitLock /\ [][NextLock]_vars

InBlock == {p \in Procs : inputs[p] = "in_block"}

\* C28: for any interleaving of processes that open the same file with
\* OpenWithLock at most one process is inside the with-block; whoever is
\* inside holds the lock, so a process that found the file locked stays in
\* __enter__ while the holder is inside, and a process that has left its
\* block does not hold the lock any more.
C28_OpenWithLockExclusive ==
    config.class = "OpenWithLock" =>
        /\ Cardinality(InBlock) <= 1
        /\ \A p \in InBlock : model.holder = p
        /\ \A p \in Procs : inputs[p] = "closed" => model.holder # p

\* C28 witness: one process is inside its with-block while another one,
\* which found the file locked, waits in __enter__.
C28_Witness ==
    /\ config.class = "OpenWithLock"
    /\ \E p, q \in Procs :
          /\ p # q
          /\ inputs[p] = "in_block"
          /\ inputs[q] = "enter_checked"
          /\ returned[q] = "True"

\* C29: check_file_lock returns True exactly when another holder has the
\* lock and False when the file is unlocked, and the holder of the lock is
\* the same after the call as before it.
C29_CheckFileLockIsPure ==
    (config.class = "OpenWithLock" /\ given # Failed) =>
        /\ given.locked = (given.before # NoHolder /\ given.before # given.proc)
        /\ given.after = given.before

\* the answer of check_file_lock alone
CheckFileLockAnswer ==
    (config.class = "OpenWithLock" /\ given # Failed) =>
        given.locked = (given.before # NoHolder /\ given.before # given.proc)

(* --------------------------- dataset splitting ------------------------- *)
\* A dataset is given by its series: the number of conformers of each
\* record.  Entries (conformers) and records are numbered from 0, and the
\* conformers of a record are consecutive entries.
MaxRecords == 4
MaxEntries == 5
RECURSIVE SeqSum(_)
SeqSum(ns) == IF ns = <<>> THEN 0 ELSE Head(ns) + SeqSum(Tail(ns))
Series ==
    {ns \in UNION {[1..k -> 1..2] : k \in 1..MaxRecords} : SeqSum(ns) <= MaxEntries}
\* len(dataset)
len_dataset(series) == SeqSum(series)
\* dataset.record_len()
record_len(series) == Len(series)
\* dataset.get_series_mol_idxs(record_idx)
get_series_mol_idxs(series, record_idx) ==
    LET first == SeqSum(SubSeq(series, 1, record_idx))
    IN  [k \in 1..series[record_idx + 1] |-> first + k - 1]
\* the split fractions, in tenths: train, validation, test
Fractions == {<<8, 1, 1>>, <<5, 3, 2>>}
\* int(np.floor(n * frac)) for every fraction, then one more for the first
\* splits until nothing remains
subset_lengths(n, split) ==
    LET floors == [i \in 1..3 |-> (n * split[i]) \div 10]
        remainder == n - SeqSum(floors)
    IN  [i \in 1..3 |->
            floors[i] + Cardinality({j \in 0..(remainder - 1) : j % 3 = i - 1})]
\* torch.randperm(n): any order of 0..n-1
randperm(n) == {perm \in [1..n -> 0..(n - 1)] : \A a, b \in 1..n : a # b => perm[a] # perm[b]}
\* the slice [offset - length : offset] of every split
slices(order, lengths) ==
    [i \in 1..3 |-> SubSeq(order, SeqSum(SubSeq(lengths, 1, i - 1)) + 1,
                           SeqSum(SubSeq(lengths, 1, i)))]
\* torch.utils.data.random_split(dataset, lengths, generator)
random_split(series, split, perm) ==
    slices(perm, subset_lengths(len_dataset(series), split))
\* random_record_split(dataset, lengths, generator)
random_record_split(series, split, perm) ==
    LET by_record == slices(perm, subset_lengths(record_len(series), split))
    IN  [i \in 1..3 |->
            cat([k \in 1..Len(by_record[i]) |-> get_series_mol_idxs(series, by_record[i][k])])]
\* FirstComeFirstServeSplittingStrategy.split
first_come_first_serve_split(series, split) ==
    LET n == len_dataset(series)
        first_split_on == (n * split[1]) \div 10
        second_split_on == first_split_on + (n * split[2]) \div 10
        indices == arange(0, n)
    IN  <<SubSeq(indices, 1, first_split_on),
          SubSeq(indices, first_split_on + 1, second_split_on),
          SubSeq(indices, second_split_on + 1, n)>>
Strategies ==
    {"RandomSplittingStrategy", "RandomRecordSplittingStrategy",
     "FirstComeFirstServeSplittingStrategy"}
\* strategy.split(dataset): the splits a strategy can return
split_results(strategy, series, split) ==
    IF strategy = "FirstComeFirstServeSplittingStrategy"
    THEN {first_come_first_serve_split(series, split)}
    ELSE IF strategy = "RandomRecordSplittingStrategy"
    THEN {random_record_split(series, split, perm) : perm \in randperm(record_len(series))}
    ELSE {random_split(series, split, perm) : perm \in randperm(len_dataset(series))}

\* a split file with the index arrays train_idx, val_idx and test_idx
SplitFiles(series) == {<<>>, <<first_come_first_serve_split(series, <<5, 3, 2>>)>>}
MaxSetups == 3

\* TorchDataModule.__init__ and prepare_data: no subset is assigned yet
\* (<<>> is an attribute that does not exist, <<indices>> a Subset)
InitDataModule ==
    /\ inputs \in Series
    /\ \E strategy \in Strategies, split \in Fractions, file \in SplitFiles(inputs) :
          config = [class |-> "TorchDataModule", split |-> strategy, fractions |-> split,
                    split_idxs |-> file]
    /\ model = [train_dataset |-> <<>>, val_dataset |-> <<>>, test_dataset |-> <<>>]
    /\ given = {}
    /\ returned = Failed
    /\ pc = "prepared"
    /\ pairlist = Failed
    /\ rep = Failed
    /\ nlayer = 0
    /\ step = Failed
    /\ energy = Failed
    /\ ncalls = 0

DataModuleFrame == UNCHANGED <<inputs, config, pairlist, rep, nlayer, step, energy>>

\* TorchDataModule.setup("fit")
SetupFit ==
    /\ config.class = "TorchDataModule"
    /\ ncalls < MaxSetups
    /\ IF config.split_idxs # <<>>
       THEN /\ model' = [model EXCEPT !.train_dataset = <<config.split_idxs[1][1]>>,
                                      !.val_dataset = <<config.split_idxs[1][2]>>]
            /\ returned' = Failed
       ELSE \E result \in split_results(config.split, inputs, config.fractions) :
               /\ model' = [model EXCEPT !.train_dataset = <<result[1]>>,
                                         !.val_dataset = <<result[2]>>]
               /\ returned' = [ok |-> TRUE, value |-> result]
    /\ given' = given \cup {"fit"}
    /\ pc' = "set_up"
    /\ ncalls' = ncalls + 1
    /\ DataModuleFrame

\* TorchDataModule.setup("test"): without a split file the module looks up
\* self.SplittingStrategy, an attribute it never assigns, and the call raises
SetupTest ==
    /\ config.class = "TorchDataModule"
    /\ ncalls < MaxSetups
    /\ IF config.split_idxs # <<>>
       THEN /\ model' = [model EXCEPT !.test_dataset = <<config.split_idxs[1][3]>>]
            /\ pc' = "set_up"
       ELSE /\ model' = model
            /\ pc' = "error"
    /\ returned' = Failed
    /\ given' = given \cup {"test"}
    /\ ncalls' = ncalls + 1
    /\ DataModuleFrame

NextDataModule == SetupFit \/ SetupTest

SpecDataModule == InitDataModule /\ [][NextDataModule]_vars

\* the entries of a sequence of indices
Range(f) == {f[k] : k \in 1..Len(f)}
\* three index lists that are pairwise disjoint, without repetition, and
\* cover every entry of the dataset
IsPartition(train, val, test) ==
    /\ Len(train) + Len(val) + Len(test) = len_dataset(inputs)
    /\ Range(train) \cup Range(val) \cup Range(test) = 0..(len_dataset(inputs) - 1)
\* all conformers of every record are in one subset
RecordsKeptTogether(train, val, test) ==
    \A r \in 0..(record_len(inputs) - 1) :
        \E part \in {train, val, test} : Range(get_series_mol_idxs(inputs, r)) \subseteq Range(part)

\* C26: for every splitting strategy and any dataset, once both stages were
\* set up (in whatever order) the module exposes a train, a validation and a
\* test dataset that are pairwise disjoint and together hold every entry
\* exactly once; with record-based splitting no record is divided.
C26_SplitsPartitionDataset ==
    (config.class = "TorchDataModule" /\ config.split_idxs = <<>> /\ given = {"fit", "test"}) =>
        /\ model.train_dataset # <<>>
        /\ model.val_dataset # <<>>
        /\ model.test_dataset # <<>>
        /\ IsPartition(model.train_dataset[1], model.val_dataset[1], model.test_dataset[1])
        /\ config.split = "RandomRecordSplittingStrategy" =>
              RecordsKeptTogether(model.train_dataset[1], model.val_dataset[1],
                                  model.test_dataset[1])

\* what one call of strategy.split returns is a partition
SplitResultIsPartition ==
    (config.class = "TorchDataModule" /\ returned # Failed) =>
        /\ IsPartition(returned.value[1], returned.value[2], returned.value[3])
        /\ config.split = "RandomRecordSplittingStrategy" =>
              RecordsKeptTogether(returned.value[1], returned.value[2], returned.value[3])

(* ------------------------- dataset file cache -------------------------- *)
\* The files of a dataset: the downloaded raw file (hdf5.gz), the unzipped
\* hdf5 file that processing writes next to it, and the processed cache
\* (npz).  A file is "missing" or holds its content.
FileNames == {"raw", "hdf5", "processed"}
MaxRuns == 3

\* a file system on which nothing exists
never_exists(files, name) == FALSE
\* os.path.exists
path_exists(files, name) == files[name] # "missing"

\* HDF5Dataset._download: the raw file is fetched
download(files) == [files EXCEPT !["raw"] = "raw data"]
\* HDF5Dataset._from_hdf5: the raw file is unzipped next to itself and read
from_hdf5(files) == [files EXCEPT !["hdf5"] = "raw data"]
\* HDF5Dataset._to_file_cache: np.savez(self.processed_data_file, **self.hdf5data)
to_file_cache(files) == [files EXCEPT !["processed"] = "processed data"]
\* HDF5Dataset._from_file_cache: np.load(self.processed_data_file)
from_file_cache(files) == files["processed"]

\* DatasetFactory._load_or_process_data: the files it leaves, the steps it
\* took and the data it loaded
load_or_process_data(files) ==
    LET cached == path_exists(files, "processed")
        have_raw == path_exists(files, "raw")
        fetched == IF ~cached /\ ~have_raw THEN download(files) ELSE files
        written == IF ~cached THEN to_file_cache(from_hdf5(fetched)) ELSE files
        steps == (IF ~cached /\ ~have_raw THEN <<"_download">> ELSE <<>>)
                 \o (IF ~cached THEN <<"_from_hdf5", "_to_file_cache">> ELSE <<>>)
                 \o <<"_from_file_cache">>
    IN  [files |-> written, steps |-> steps, numpy_data |-> from_file_cache(written)]

InitFiles ==
    /\ inputs \in [FileNames -> {"missing"}]
                  \cup {[raw |-> r, hdf5 |-> h, processed |-> c] :
                           r \in {"missing", "raw data"}, h \in {"missing", "raw data"},
                           c \in {"missing", "processed data"}}
    /\ config \in [class : {"DatasetFactory"}, dataset_name : {"QM9"}]
    /\ model = [hdf5data |-> "None", numpy_data |-> "None"]
    /\ given = Failed
    /\ returned = Failed
    /\ pc = "idle"
    /\ pairlist = Failed
    /\ rep = Failed
    /\ nlayer = 0
    /\ step = Failed
    /\ energy = Failed
    /\ ncalls = 0

FilesFrame == UNCHANGED <<config, pairlist, rep, nlayer, step, energy>>

\* DatasetFactory.create_dataset(data) on a new HDF5Dataset object
CreateDataset ==
    /\ config.class = "DatasetFactory"
    /\ ncalls < MaxRuns
    /\ \E out \in {load_or_process_data(inputs)} :
          /\ inputs' = out.files
          /\ model' = [hdf5data |-> "None", numpy_data |-> out.numpy_data]
          /\ returned' = [ok |-> TRUE, steps |-> out.steps, dataset |-> out.numpy_data]
    /\ given' = inputs
    /\ pc' = "returned"
    /\ ncalls' = ncalls + 1
    /\ FilesFrame

\* os.remove(file) between two runs
Remove ==
    /\ config.class = "DatasetFactory"
    /\ \E name \in FileNames :
          /\ path_exists(inputs, name)
          /\ inputs' = [inputs EXCEPT ![name] = "missing"]
    /\ pc' = "idle"
    /\ UNCHANGED <<model, given, returned, ncalls>>
    /\ FilesFrame

NextFiles == CreateDataset \/ Remove

SpecFiles == InitFiles /\ [][NextFiles]_vars

\* the step was taken by the last call
Took(name) == \E k \in 1..Len(returned.steps) : returned.steps[k] = name

Directions ==
    {<<3, 0, 0>>, <<0, 4, 0>>, <<3, 4, 0>>, <<0 - 3, 0, 0>>, <<0 - 3, 4, 0>>, <<0, 0, 0>>}
MaxTriples == 2
\* comparison and absolute value of fractions
QLeq(a, b) == a[1] * b[2] <= b[1] * a[2]
QAbs(a) == <<Abs(a[1]), a[2]>>
\* the factor 0.95 of compute_angular_sub_aev
ScaleFactor == <<19, 20>>
\* torch.nn.functional.cosine_similarity: the dot product over the product of
\* the norms, 0 for a vector of length 0 (the norms are bounded below by eps)
cosine_similarity(v1, v2) ==
    IF norm(v1) * norm(v2) = 0 THEN Q(0)
    ELSE Norm(v1[1] * v2[1] + v1[2] * v2[2] + v1[3] * v2[3], norm(v1) * norm(v2))
\* torch.acos: NaN outside [-1, 1]; inside, the angle as a fraction of pi, by
\* linear interpolation between its values at -1, 0 and 1
torch_acos(x) ==
    IF ~QLeq(QAbs(x), Q(1)) THEN NaN ELSE <<QDivInt(QSub(Q(1), x), 2)>>
\* cos_angles = 0.95 * cosine_similarity(vectors12[0], vectors12[1])
cos_angles(v1, v2) == QMul(ScaleFactor, cosine_similarity(v1, v2))
\* AngularSymmetryFunction.compute_angular_sub_aev for one triple: the
\* distances, the cosine handed to acos, the angle, and the cutoff factor
\* fcj12.prod(0) that multiplies the angular and radial terms
compute_angular_sub_aev(v1, v2, cutoff) ==
    [distances12 |-> <<norm(v1), norm(v2)>>,
     cos_angles |-> cos_angles(v1, v2),
     angles |-> torch_acos(cos_angles(v1, v2)),
     fcj12 |-> FMul(CosineCutoff(norm(v1), cutoff), CosineCutoff(norm(v2), cutoff))]

InitAngular ==
    /\ inputs \in UNION {[1..n -> Directions \X Directions] : n \in 1..MaxTriples}
    /\ config \in [class : {"AngularSymmetryFunction"}, cutoff : {5, 6}]
    /\ pc = "input"
    /\ returned = Failed
    /\ pairlist = Failed
    /\ rep = Failed
    /\ nlayer = 0
    /\ step = Failed
    /\ energy = Failed
    /\ model = Failed
    /\ given = Failed
    /\ ncalls = 0

\* AngularSymmetryFunction.forward on the displacement vectors of the triples
CallAngular ==
    /\ config.class = "AngularSymmetryFunction"
    /\ pc = "input"
    /\ returned' = [ok |-> TRUE,
                    value |-> [k \in 1..Len(inputs) |->
                                  compute_angular_sub_aev(inputs[k][1], inputs[k][2],
                                                          config.cutoff)]]
    /\ pc' = "done"
    /\ UNCHANGED <<inputs, config, pairlist, rep, nlayer, step, energy, model, given, ncalls>>

NextAngular == CallAngular

SpecAngular == InitAngular /\ [][NextAngular]_vars

\* the bound 1 - delta of the clamp, with delta = 0.05
ClampBound == <<19, 20>>
\* dot(u_ij, u_ik) of the unit vectors of triple k
TrueCosine(k) == cosine_similarity(inputs[k][1], inputs[k][2])

\* C25: for every triple the cosine handed to arccos is the true cosine
\* whenever that lies inside [-1 + delta, 1 - delta], it never leaves that
\* interval, and arccos does not return NaN.
C25_ClampedCosine ==
    (config.class = "AngularSymmetryFunction" /\ pc = "done") =>
        \A k \in 1..Len(inputs) :
            (norm(inputs[k][1]) > 0 /\ norm(inputs[k][2]) > 0) =>
                /\ QLeq(QAbs(TrueCosine(k)), ClampBound) =>
                      returned.value[k].cos_angles = TrueCosine(k)
                /\ QLeq(QAbs(returned.value[k].cos_angles), ClampBound)
                /\ ~IsNaN(returned.value[k].angles)

\* the cosine handed to arccos stays inside the interval and the angle is
\* a number
CosineInsideDomain ==
    (config.class = "AngularSymmetryFunction" /\ pc = "done") =>
        \A k \in 1..Len(inputs) :
            /\ QLeq(QAbs(returned.value[k].cos_angles), ClampBound)
            /\ ~IsNaN(returned.value[k].angles)

(* ----------------------------- energy scaling -------------------------- *)
\* element -> energy tables: none given, hydrogen only, hydrogen and carbon
EnergyTables ==
    {<<>>, [z \in {1} |-> Fl(0 - 40)], [z \in Elements |-> Fl(0 - 40 * z)]}
ScalingStddevs == {One, Fl(96), Real(2)}
ScalingMeans == {Fl(0), Fl(0 - 32)}
RawEnergies == {Fl(0 - 80), Fl(24)}
\* subsystem indices of n atoms in M molecules, molecule by molecule
SortedIndices(n) ==
    {ids \in [1..n -> 0..(MaxMol - 1)] :
        /\ ids[1] = 0
        /\ \A k \in 1..(n - 1) : ids[k + 1] \in {ids[k], ids[k] + 1}}
ScalingBatches ==
    UNION {[atomic_numbers : [1..n -> Elements], atomic_subsystem_indices : SortedIndices(n)] :
              n \in 1..MaxAtoms}

\* AtomicSelfEnergies.ase_tensor_for_indexing of a table: the energy of the
\* element where the table has one, 0.0 elsewhere
ase_tensor_of(energies) ==
    [z \in Elements |-> IF z \in DOMAIN energies THEN energies[z] ELSE Fl(0)]

\* EnergyScaling._energy_postprocessing with the dataset statistics stats
EnergyScaling_energy_postprocessing(properties_per_molecule, batch, stats) ==
    LET M == Len(properties_per_molecule)
        rescaled == Tensor([m \in 1..M |->
                        rescale_energy(properties_per_molecule[m],
                                       stats.scaling_stddev, stats.scaling_mean)])
        molecular_ase ==
            calculate_molecular_self_energy(batch, ase_tensor_of(stats.atomic_self_energies), M)
    IN  [ok |-> TRUE,
         raw_E |-> properties_per_molecule,
         rescaled_E |-> rescaled,
         molecular_ase |-> molecular_ase,
         E |-> Tensor([m \in 1..M |-> FAdd(rescaled[m], molecular_ase[m])])]

\* EnergyScaling.__init__: DatasetStatistics(0.0, 1.0, AtomicSelfEnergies())
InitScaling ==
    /\ inputs \in ScalingBatches
    /\ config \in [class : {"EnergyScaling"}]
    /\ model = [scaling_mean |-> Fl(0), scaling_stddev |-> One, atomic_self_energies |-> <<>>]
    /\ energy \in {[ok |-> TRUE, value |-> v] :
                      v \in [1..number_of_molecules(inputs.atomic_subsystem_indices)
                                -> RawEnergies]}
    /\ pc = "idle"
    /\ returned = Failed
    /\ pairlist = Failed
    /\ rep = Failed
    /\ nlayer = 0
    /\ step = Failed
    /\ given = Failed
    /\ ncalls = 0

\* EnergyScaling.update_dataset_statistics(scaling_mean=..., scaling_stddev=...,
\* atomic_self_energies=...)
UpdateScaling ==
    /\ config.class = "EnergyScaling"
    /\ pc = "idle"
    /\ \E mean \in ScalingMeans, stddev \in ScalingStddevs, table \in EnergyTables :
          model' = [scaling_mean |-> mean, scaling_stddev |-> stddev,
                    atomic_self_energies |-> table]
    /\ pc' = "updated"
    /\ UNCHANGED <<inputs, config, pairlist, rep, nlayer, step, energy, given, returned, ncalls>>

\* EnergyScaling._energy_postprocessing on the per-molecule energies
Postprocess ==
    /\ config.class = "EnergyScaling"
    /\ pc \in {"idle", "updated"}
    /\ returned' = EnergyScaling_energy_postprocessing(energy.value, inputs, model)
    /\ pc' = "done"
    /\ UNCHANGED <<inputs, config, pairlist, rep, nlayer, step, energy, model, given, ncalls>>

NextScaling == UpdateScaling \/ Postprocess

SpecScaling == InitScaling /\ [][NextScaling]_vars

\* the table energy of the element of every atom of the batch
TableEnergies ==
    [a \in 1..NumAtoms |->
        IF inputs.atomic_numbers[a] \in DOMAIN model.atomic_self_energies
        THEN model.atomic_self_energies[inputs.atomic_numbers[a]] ELSE Fl(0)]

\* C21: in table mode the final energy of every molecule is
\* raw * scaling_stddev + scaling_mean plus the molecular self energy, and
\* the molecular self energy of molecule m is the sum of the table energies
\* of the elements of exactly the atoms of m.
C21_TableModeEnergy ==
    (config.class = "EnergyScaling" /\ pc = "done") =>
        /\ Len(returned.E) = number_of_molecules(inputs.atomic_subsystem_indices)
        /\ \A m \in 1..Len(returned.E) :
              /\ returned.molecular_ase[m] = Fl(SumOver(TableEnergies, AtomsOf(m - 1)))
              /\ returned.E[m] =
                     <<Quot(energy.value[m][1] * model.scaling_stddev[1], Scale)
                       + model.scaling_mean[1] + SumOver(TableEnergies, AtomsOf(m - 1))>>

\* C21 witness: two molecules of different composition, scaled by a stddev
\* other than 1 and shifted by a mean other than 0, with a table that has
\* an energy for every element of the batch
C21_Witness ==
    /\ config.class = "EnergyScaling"
    /\ pc = "done"
    /\ Len(returned.E) = 2
    /\ model.scaling_stddev # One
    /\ model.scaling_mean # Fl(0)
    /\ DOMAIN model.atomic_self_energies = Elements
    /\ returned.molecular_ase[1] # returned.molecular_ase[2]
    /\ returned.E[1] # returned.raw_E[1]

(* ------------------------- self energy regression ---------------------- *)
MaxMolecules == 3
MaxCount == 2
\* batch_size of the DataLoader of calculate_self_energies
batch_size == 64
\* the size of the hash table of a Python set of at most four elements
SetTableSize == 8
\* the reference table the energies of the data are generated from
ReferenceEnergies == [z \in {1, 6, 8} |-> 0 - (2 * z + 1)]
\* the elements a dataset is made of
ElementPairs == {<<1, 6>>, <<1, 8>>}
Compositions == ((0..MaxCount) \X (0..MaxCount)) \ {<<0, 0>>}
\* the atomic numbers of a molecule with c[1] atoms of the first and c[2]
\* atoms of the second element of the pair
Molecule(pair, c) == [k \in 1..(c[1] + c[2]) |-> IF k <= c[1] THEN pair[1] ELSE pair[2]]
\* an energy that is the exact linear combination of the reference table
ReferenceEnergy(pair, c) ==
    c[1] * ReferenceEnergies[pair[1]] + c[2] * ReferenceEnergies[pair[2]]
Record(pair, c) == [Z |-> Molecule(pair, c), E |-> ReferenceEnergy(pair, c)]
\* the datasets of n molecules made of the elements of the pair
RegressionDatasets(pair, n) ==
    {[m \in 1..n |-> Record(pair, cs[m])] : cs \in [1..n -> Compositions]}

\* counts[molecule].scatter_add_(0, atomic_numbers_[mask], ones): the number
\* of atoms of element z in the molecule
element_count(Z, z) == Cardinality({k \in 1..Len(Z) : Z[k] = z})
\* unique_atomic_numbers |= set(atomic_numbers.tolist()) over all batches
unique_atomic_numbers(dataset) ==
    UNION {{dataset[m].Z[k] : k \in 1..Len(dataset[m].Z)} : m \in 1..Len(dataset)}
\* counts[:, valid_elements_mask]: the columns of the elements that occur,
\* in ascending order of the atomic number
valid_elements(dataset) ==
    CHOOSE cols \in [1..Cardinality(unique_atomic_numbers(dataset))
                        -> unique_atomic_numbers(dataset)] :
        \A i, j \in DOMAIN cols : i < j => cols[i] < cols[j]
\* iteration over a set of small integers as CPython performs it: by the slot
\* hash(z) % 8 of the hash table, for elements that fall into different slots
set_iteration(S) ==
    CHOOSE order \in [1..Cardinality(S) -> S] :
        \A i, j \in DOMAIN order : i < j => order[i] % SetTableSize < order[j] % SetTableSize

RECURSIVE SeqDot(_, _)
SeqDot(a, b) == IF a = <<>> THEN 0 ELSE Head(a) * Head(b) + SeqDot(Tail(a), Tail(b))
Column(A, c) == [m \in 1..Len(A) |-> A[m][c]]
\* the determinant of the normal equations of a matrix of two columns
GramDeterminant(A) ==
    SeqDot(Column(A, 1), Column(A, 1)) * SeqDot(Column(A, 2), Column(A, 2))
    - SeqDot(Column(A, 1), Column(A, 2)) * SeqDot(Column(A, 1), Column(A, 2))
\* the design matrix has full column rank
FullColumnRank(A) == Len(A[1]) = 1 \/ GramDeterminant(A) # 0
\* np.linalg.lstsq(A, y, rcond=None)[0] for one or two non-zero columns:
\* the least-squares solution, and the one of minimum norm where the
\* columns are linearly dependent (the pseudo-inverse of a matrix of rank 1
\* is its transpose over the sum of its squared entries)
lstsq(A, y) ==
    LET g11 == SeqDot(Column(A, 1), Column(A, 1))
        b1 == SeqDot(Column(A, 1), y)
    IN  IF Len(A[1]) = 1 THEN <<Norm(b1, g11)>>
        ELSE LET g12 == SeqDot(Column(A, 1), Column(A, 2))
                 g22 == SeqDot(Column(A, 2), Column(A, 2))
                 b2 == SeqDot(Column(A, 2), y)
                 det == g11 * g22 - g12 * g12
             IN  IF det # 0
                 THEN <<Norm(g22 * b1 - g12 * b2, det), Norm(g11 * b2 - g12 * b1, det)>>
                 ELSE <<Norm(b1, g11 + g22), Norm(b2, g11 + g22)>>

\* the element-count design matrix of the dataset
filtered_counts(dataset) ==
    [m \in 1..Len(dataset) |->
        [c \in 1..Len(valid_elements(dataset)) |->
            element_count(dataset[m].Z, valid_elements(dataset)[c])]]
\* {int(idx): energy for idx, energy in zip(unique_atomic_numbers, fit)}
zip_to_dict(order, fit) ==
    [z \in {order[i] : i \in DOMAIN order} |->
        fit[CHOOSE i \in DOMAIN order : order[i] = z]]

\* calculate_self_energies: the batches of the DataLoader hold batch_size
\* molecules and the last one the rest; the energies of a batch of one
\* molecule are squeezed to a tensor without dimensions, and energies.size(0)
\* raises
calculate_self_energies(dataset) ==
    IF Len(dataset) % batch_size = 1 THEN Failed
    ELSE [ok |-> TRUE,
          value |-> zip_to_dict(set_iteration(unique_atomic_numbers(dataset)),
                                lstsq(filtered_counts(dataset),
                                      [m \in 1..Len(dataset) |-> dataset[m].E]))]

InitRegression ==
    /\ \E pair \in ElementPairs, n \in 1..MaxMolecules : inputs \in RegressionDatasets(pair, n)
    /\ config \in [class : {"calculate_self_energies"}]
    /\ pc = "dataset"
    /\ returned = Failed
    /\ pairlist = Failed
    /\ rep = Failed
    /\ nlayer = 0
    /\ step = Failed
    /\ energy = Failed
    /\ model = Failed
    /\ given = Failed
    /\ ncalls = 0

\* calculate_self_energies(torch_dataset, collate_fn)
CalculateSelfEnergies ==
    /\ config.class = "calculate_self_energies"
    /\ pc = "dataset"
    /\ \E out \in {calculate_self_energies(inputs)} :
          /\ returned' = out
          /\ pc' = IF out.ok THEN "done" ELSE "error"
    /\ UNCHANGED <<inputs, config, pairlist, rep, nlayer, step, energy, model, given, ncalls>>

NextRegression == CalculateSelfEnergies

SpecRegression == InitRegression /\ [][NextRegression]_vars

Regressed == config.class = "calculate_self_energies" /\ pc \in {"done", "error"}

\* C22: when the design matrix of the data has full column rank, the
\* regression returns a table that holds exactly the elements observed in
\* the data and, for each of them, its reference energy.
C22_RegressionRecoversTable ==
    (Regressed /\ FullColumnRank(filtered_counts(inputs))) =>
        /\ returned.ok
        /\ DOMAIN returned.value = unique_atomic_numbers(inputs)
        /\ \A z \in unique_atomic_numbers(inputs) :
              returned.value[z] = Q(ReferenceEnergies[z])

\* the energies the regression returns are the reference energies, in the
\* ascending order of the observed elements
FitRecoversTable ==
    (Regressed /\ returned.ok /\ FullColumnRank(filtered_counts(inputs))) =>
        /\ DOMAIN returned.value = unique_atomic_numbers(inputs)
        /\ \A i \in 1..Len(valid_elements(inputs)) :
              returned.value[set_iteration(unique_atomic_numbers(inputs))[i]]
                  = Q(ReferenceEnergies[valid_elements(inputs)[i]])

\* C23: when the columns of the design matrix are linearly dependent or
\* the molecules are fewer than the observed elements, the regression fails
\* and returns no table.
C23_SingularSystemReported ==
    (Regressed /\ (~FullColumnRank(filtered_counts(inputs))
                   \/ Len(inputs) < Cardinality(unique_atomic_numbers(inputs)))) =>
        ~returned.ok

(* ------------------- rotated and translated positions ------------------ *)
\* rotation matrices that map the integer grid onto itself: the identity,
\* quarter turns about the third and the first axis, a half turn about the
\* second axis and the turn by a third about the space diagonal
Rotations ==
    {<<<<1, 0, 0>>, <<0, 1, 0>>, <<0, 0, 1>>>>,
     <<<<0, 0 - 1, 0>>, <<1, 0, 0>>, <<0, 0, 1>>>>,
     <<<<1, 0, 0>>, <<0, 0, 0 - 1>>, <<0, 1, 0>>>>,
     <<<<0 - 1, 0, 0>>, <<0, 1, 0>>, <<0, 0, 0 - 1>>>>,
     <<<<0, 0, 1>>, <<1, 0, 0>>, <<0, 1, 0>>>>}
Translations == {<<0, 0, 0>>, <<1, 0 - 2, 5>>}
\* the numbers of atoms of the batches
SystemSizes == 1..3
\* torch.matmul(coordinates, rotation_matrix) for one point
MatVec(R, v) == [c \in 1..3 |-> R[c][1] * v[1] + R[c][2] * v[2] + R[c][3] * v[3]]
\* the positions of the batch rotated by R and then shifted by t
transformed_positions(positions, R, t) ==
    [a \in 1..Len(positions) |->
        [c \in 1..3 |-> MatVec(R, positions[a])[c] + t[c]]]
\* atoms of alternating elements at the corners of the triangle, the
\* molecules numbered 0, 1, ... in atom order
EquivarianceBatches ==
    UNION {[atomic_numbers : {[a \in 1..n |-> IF a % 2 = 1 THEN 1 ELSE 6]},
            positions : [1..n -> Points],
            atomic_subsystem_indices : {ids \in [1..n -> 0..(n - 1)] : IsDense(ids)}] :
              n \in SystemSizes}

InitEquivariance ==
    /\ inputs \in EquivarianceBatches
    /\ config \in [class : {"equivariance"}, only_unique_pairs : {FALSE}, cutoff : {4},
                   arch : Archs]
    /\ given = [rotation |-> <<<<1, 0, 0>>, <<0, 1, 0>>, <<0, 0, 1>>>>,
                translation |-> <<0, 0, 0>>, batch |-> inputs]
    /\ pc = "reference"
    /\ energy = Failed
    /\ returned = Failed
    /\ pairlist = Failed
    /\ rep = Failed
    /\ nlayer = 0
    /\ step = Failed
    /\ model = Failed
    /\ ncalls = 0

\* the positions of a copy of the batch are rotated and translated
Transform ==
    /\ config.class = "equivariance"
    /\ pc = "transform"
    /\ \E R \in Rotations, t \in Translations :
          given' = [rotation |-> R, translation |-> t,
                    batch |-> [inputs EXCEPT !.positions =
                                  transformed_positions(inputs.positions, R, t)]]
    /\ pc' = "transformed"
    /\ UNCHANGED <<inputs, config, pairlist, rep, nlayer, step, energy, model, returned, ncalls>>

\* model(input_data): the reference result for the batch, then the result
\* for its transformed copy
CallModel ==
    /\ config.class = "equivariance"
    /\ pc \in {"reference", "transformed"}
    /\ \E out \in {NNP_forward(given.batch, config)} :
          /\ energy' = IF pc = "reference" THEN out ELSE energy
          /\ returned' = IF pc = "reference" THEN returned ELSE out
    /\ pc' = IF pc = "reference" THEN "transform" ELSE "done"
    /\ UNCHANGED <<inputs, config, pairlist, rep, nlayer, step, model, given, ncalls>>

NextEquivariance == CallModel \/ Transform

SpecEquivariance == InitEquivariance /\ [][NextEquivariance]_vars

====
